---------------------------- MODULE Spec2Model ----------------------------
(***************************************************************************)
(* Grant reconciliation of the provider's grant resource: the privilege   *)
(* normalizer, the entity / grantee / grant model, the show-grants row     *)
(* parser and the Create / Read / Update / Delete / Import handlers, as    *)
(* written in src/TIDB_VERSION_SYNC_PLAN.md lines 388-1174.                *)
(*                                                                         *)
(* Strings are sequences of one-character strings, so that trimming,       *)
(* splitting, upper-casing, sorting and formatting are computed and not    *)
(* assumed.                                                                *)
(***************************************************************************)
EXTENDS Integers, Sequences, FiniteSets, TLC

(***************************************************************************)
(* Bytes and strings (Go package strings / sort, as used by the source).   *)
(***************************************************************************)

\* The characters of the model in byte order (the order sort.Strings uses).
\* "BACKTICK" stands for the back-quote character (byte 96).
Bytes ==
  << " ", "%", "'", "(", ")", "*", ",", "-", ".", "0", "1", "2", ":", ";", "@",
     "A", "B", "C", "D", "E", "F", "G", "H", "I", "J", "K", "L", "M",
     "N", "O", "P", "Q", "R", "S", "T", "U", "V", "W", "X", "Y", "Z",
     "_", "BACKTICK",
     "a", "b", "c", "d", "e", "f", "g", "h", "i", "j", "k", "l", "m",
     "n", "o", "p", "q", "r", "s", "t", "u", "v", "w", "x", "y", "z" >>

CharSet == { Bytes[i] : i \in 1..Len(Bytes) }

Ord == [ c \in CharSet |-> CHOOSE i \in 1..Len(Bytes) : Bytes[i] = c ]

UpperOf == [ c \in CharSet |->
               IF Ord[c] >= Ord["a"] /\ Ord[c] <= Ord["z"]
               THEN Bytes[Ord[c] - Ord["a"] + Ord["A"]]
               ELSE c ]

\* strings.ToUpper
ToUpper(s) == [ i \in 1..Len(s) |-> UpperOf[s[i]] ]

RECURSIVE TrimLeft(_, _)
TrimLeft(s, cutset) ==
  IF s # << >> /\ Head(s) \in cutset THEN TrimLeft(Tail(s), cutset) ELSE s

RECURSIVE TrimRight(_, _)
TrimRight(s, cutset) ==
  IF s # << >> /\ s[Len(s)] \in cutset
  THEN TrimRight(SubSeq(s, 1, Len(s) - 1), cutset)
  ELSE s

\* strings.Trim(s, cutset): leading and trailing characters of cutset removed
Trim(s, cutset) == TrimRight(TrimLeft(s, cutset), cutset)

\* strings.TrimSpace, for the one white-space character of the model
TrimSpace(s) == Trim(s, {" "})

\* Position of the first occurrence of character c in s, 0 when there is none
RECURSIVE IndexFrom(_, _, _)
IndexFrom(s, c, i) ==
  IF i > Len(s) THEN 0
  ELSE IF s[i] = c THEN i ELSE IndexFrom(s, c, i + 1)

IndexOf(s, c) == IndexFrom(s, c, 1)

\* strings.Split(s, sep) for a one-character separator: n separators give
\* n + 1 parts, and the empty string gives one empty part
RECURSIVE SplitAt(_, _, _)
SplitAt(s, sep, i) ==
  IF i = 0 THEN << s >>
  ELSE << SubSeq(s, 1, i - 1) >>
       \o SplitAt(SubSeq(s, i + 1, Len(s)), sep, IndexOf(SubSeq(s, i + 1, Len(s)), sep))

Split(s, sep) == SplitAt(s, sep, IndexOf(s, sep))

\* strings.Join(parts, sep)
RECURSIVE Join(_, _)
Join(parts, sep) ==
  IF parts = << >> THEN << >>
  ELSE IF Len(parts) = 1 THEN parts[1]
  ELSE parts[1] \o sep \o Join(Tail(parts), sep)

\* Concatenation of a sequence of strings (fmt.Sprintf with %s verbs)
Cat(parts) == Join(parts, << >>)

\* a < b in byte-wise lexicographic order (Go's string comparison)
RECURSIVE StrLess(_, _)
StrLess(a, b) ==
  IF b = << >> THEN FALSE
  ELSE IF a = << >> THEN TRUE
  ELSE IF a[1] = b[1] THEN StrLess(Tail(a), Tail(b))
  ELSE Ord[a[1]] < Ord[b[1]]

RECURSIVE InsertSorted(_, _)
InsertSorted(x, sorted) ==
  IF sorted = << >> THEN << x >>
  ELSE IF StrLess(x, sorted[1]) THEN << x >> \o sorted
  ELSE << sorted[1] >> \o InsertSorted(x, Tail(sorted))

\* sort.Strings
RECURSIVE SortStrings(_)
SortStrings(xs) ==
  IF xs = << >> THEN << >>
  ELSE InsertSorted(xs[Len(xs)], SortStrings(SubSeq(xs, 1, Len(xs) - 1)))

Range(xs) == { xs[i] : i \in 1..Len(xs) }


\* The elements of a finite set of strings as a list (schema.Set.List(): a
\* fixed order of the elements; the model lists them in ascending order)
Least(S) == CHOOSE x \in S : \A y \in S : y = x \/ StrLess(x, y)

RECURSIVE SetList(_)
SetList(S) ==
  IF S = {} THEN << >> ELSE << Least(S) >> \o SetList(S \ { Least(S) })

(***************************************************************************)
(* String literals of the source.                                          *)
(***************************************************************************)

Empty == << >>
Star3 == << "*", ".", "*", ".", "*" >>
Table == << "t", "a", "b", "l", "e" >>
Resource == << "r", "e", "s", "o", "u", "r", "c", "e" >>
WorkloadGroup ==
  << "w", "o", "r", "k", "l", "o", "a", "d", "_", "g", "r", "o", "u", "p" >>
KwGrant == << "G", "R", "A", "N", "T", " " >>
KwRevoke == << "R", "E", "V", "O", "K", "E", " " >>
KwOn == << " ", "O", "N", " " >>
KwTo == << " ", "T", "O", " " >>
KwFrom == << " ", "F", "R", "O", "M", " " >>
KwRole == << "R", "O", "L", "E", " ", "'" >>
KwResource == << "R", "E", "S", "O", "U", "R", "C", "E", " ", "'" >>
KwWorkloadGroup ==
  << "W", "O", "R", "K", "L", "O", "A", "D", " ", "G", "R", "O", "U", "P", " ", "'" >>
KwShowGrantsFor ==
  << "S", "H", "O", "W", " ", "G", "R", "A", "N", "T", "S", " ", "F", "O", "R", " " >>
Quote == << "'" >>

(***************************************************************************)
(* Privilege normalizer.                                                   *)
(***************************************************************************)

\* variant of SortedColumns: the parts are sorted and joined as they are
SortedColumns_Untrimmed(split) == Join(SortStrings(split), << ",", " " >>)

\* the column list of normalizeColumnOrder: split on ",", each part trimmed
\* of back-quotes and spaces, sorted, joined with ", "
SortedColumns(split) ==
  Join(SortStrings([ k \in 1..Len(split) |-> Trim(split[k], {"BACKTICK", " "}) ]),
       << ",", " " >>)

\* normalizeColumnOrder for a string whose first "(" is at position i (0 for
\* none).  The regular expression ^([^(]*)\((.*)\)$ matches when the string
\* holds a "(" and ends in ")"; group 1 is the text before the first "(",
\* group 2 the text between it and the final ")"
normalizeColumnOrderAt(perm, i) ==
  IF i = 0 \/ perm[Len(perm)] # ")" THEN perm
  ELSE Cat(<< Trim(SubSeq(perm, 1, i - 1), {" "}), << "(" >>,
              SortedColumns(Split(SubSeq(perm, i + 1, Len(perm) - 1), ",")),
              << ")" >> >>)

normalizeColumnOrder(perm) == normalizeColumnOrderAt(perm, IndexOf(perm, "("))

\* variant of normalizePerm: the letter case is kept
normalizePerm_KeepCase(perm) == normalizeColumnOrder(Trim(perm, {"BACKTICK", " "}))

\* one element of normalizePerms' loop: trimmed of back-quotes and spaces,
\* upper-cased, columns ordered
normalizePerm(perm) == normalizeColumnOrder(ToUpper(Trim(perm, {"BACKTICK", " "})))

\* normalizePerms
\* variant of normalizePerms: equal elements are merged
normalizePerms_Distinct(perms) ==
  SortStrings(SetList({ normalizePerm(perms[k]) : k \in 1..Len(perms) }))

\* variant of normalizePerms: the list is left in the order given
normalizePerms_Unsorted(perms) == [ k \in 1..Len(perms) |-> normalizePerm(perms[k]) ]

normalizePerms(perms) ==
  SortStrings([ k \in 1..Len(perms) |-> normalizePerm(perms[k]) ])

\* setToArray
setToArray(s) == SetList(s)

(***************************************************************************)
(* Entity, grantee and the two grant variants.                             *)
(***************************************************************************)

Colon == << ":" >>
At == << "@" >>

EntityIDString(e) == Cat(<< e.Type, Colon, e.Name >>)

EntitySQLString(e) ==
  IF e.Type = Resource THEN Cat(<< KwResource, e.Name, Quote >>)
  ELSE IF e.Type = WorkloadGroup THEN Cat(<< KwWorkloadGroup, e.Name, Quote >>)
  ELSE e.Name

EntityEquals(e, other) == e.Type = other.Type /\ e.Name = other.Name

UserOrRoleIDString(u) ==
  IF u.Host = Empty THEN u.Name ELSE Cat(<< u.Name, At, u.Host >>)

UserOrRoleSQLString(u) ==
  IF u.Host = Empty THEN Cat(<< KwRole, u.Name, Quote >>)
  ELSE Cat(<< Quote, u.Name, Quote, At, Quote, u.Host, Quote >>)

UserOrRoleEquals(u, other) ==
  IF u.Name # other.Name THEN FALSE
  ELSE IF (u.Host = Empty \/ u.Host = << "%" >>)
          /\ (other.Host = Empty \/ other.Host = << "%" >>) THEN TRUE
  ELSE u.Host = other.Host

\* a nil DorisGrant interface value
NilGrant == [ kind |-> "nil" ]

PrivilegeGrant(privs, entity, userOrRole) ==
  [ kind |-> "PrivilegeGrant", Privileges |-> privs, Entity |-> entity,
    UserOrRole |-> userOrRole ]

RoleGrant(roles, userOrRole) ==
  [ kind |-> "RoleGrant", Roles |-> roles, UserOrRole |-> userOrRole ]

\* GetId of either variant
GetId(g) ==
  IF g.kind = "PrivilegeGrant"
  THEN Cat(<< UserOrRoleIDString(g.UserOrRole), Colon, EntityIDString(g.Entity) >>)
  ELSE UserOrRoleIDString(g.UserOrRole)

\* SQLGrantStatement of either variant
SQLGrantStatement(g) ==
  IF g.kind = "PrivilegeGrant"
  THEN Cat(<< KwGrant, Join(g.Privileges, << "," >>), KwOn,
              EntitySQLString(g.Entity), KwTo, UserOrRoleSQLString(g.UserOrRole) >>)
  ELSE Cat(<< KwGrant, Quote, Join(g.Roles, << "'", ",", "'" >>), Quote, KwTo,
              UserOrRoleSQLString(g.UserOrRole) >>)

\* SQLRevokeStatement of either variant
SQLRevokeStatement(g) ==
  IF g.kind = "PrivilegeGrant"
  THEN Cat(<< KwRevoke, Join(g.Privileges, << "," >>), KwOn,
              EntitySQLString(g.Entity), KwFrom, UserOrRoleSQLString(g.UserOrRole) >>)
  ELSE Cat(<< KwRevoke, Quote, Join(g.Roles, << "'", ",", "'" >>), Quote, KwFrom,
              UserOrRoleSQLString(g.UserOrRole) >>)

\* variant of PrivilegesPartiallyRevocable: every grant variant qualifies
PrivilegesPartiallyRevocable_Every(g) == TRUE

\* PrivilegeGrant.SQLPartialRevokePrivilegesStatement
SQLPartialRevokePrivilegesStatement(g, privilegesToRevoke) ==
  Cat(<< KwRevoke, Join(privilegesToRevoke, << "," >>), KwOn,
         EntitySQLString(g.Entity), KwFrom, UserOrRoleSQLString(g.UserOrRole) >>)

\* the type assertion grant.(PrivilegesPartiallyRevocable)
PrivilegesPartiallyRevocable(g) == g.kind = "PrivilegeGrant"

\* variant of ConflictsWithGrant: privilege grants conflict only when the
\* grantee is the same as well
ConflictsWithGrant_SameGrantee(t, other) ==
  IF t.kind = "PrivilegeGrant"
  THEN other.kind = "PrivilegeGrant" /\ other.Entity = t.Entity
       /\ other.UserOrRole = t.UserOrRole
  ELSE other.kind = "RoleGrant" /\ other.UserOrRole = t.UserOrRole

\* ConflictsWithGrant of either variant (the receiver is t)
ConflictsWithGrant(t, other) ==
  IF t.kind = "PrivilegeGrant"
  THEN other.kind = "PrivilegeGrant" /\ other.Entity = t.Entity
  ELSE other.kind = "RoleGrant" /\ other.UserOrRole = t.UserOrRole


(***************************************************************************)
(* Grant parser: one show-grants row to a list of grants.                  *)
(***************************************************************************)

\* sql.NullString
Null == [ Valid |-> FALSE, String |-> Empty ]
Str(s) == [ Valid |-> TRUE, String |-> s ]

\* parseUserIdentity (closure of buildDorisGrants)
parseUserIdentityParts(split) ==
  IF Len(split) = 1 THEN [ Name |-> Trim(split[1], {"'"}), Host |-> Empty ]
  ELSE [ Name |-> Trim(split[1], {"'"}), Host |-> Trim(split[2], {"'"}) ]

parseUserIdentity(userIdentity) == parseUserIdentityParts(Split(userIdentity, "@"))

\* the padding loop of buildPrivilegeGrant: "*" appended until three parts
RECURSIVE PadParts(_)
PadParts(nameParts) ==
  IF Len(nameParts) < 3 THEN PadParts(Append(nameParts, << "*" >>)) ELSE nameParts

\* the entity name of an entry: table names are padded to three parts
EntryName(name, entityType) ==
  IF entityType = Table
  THEN Join(PadParts(Split(TrimSpace(name), ".")), << "." >>)
  ELSE name

\* one entry of a privilege-class field, split on ":" (the body of
\* buildPrivilegeGrant's loop)
buildEntryParts(entryParts, entityType, userIdentity) ==
  IF Len(entryParts) > 2 THEN [ err |-> TRUE, grants |-> << >> ]
  ELSE [ err |-> FALSE,
         grants |-> << PrivilegeGrant(
             normalizePerms(Split(TrimSpace(entryParts[Len(entryParts)]), ",")),
             [ Type |-> entityType,
               Name |-> EntryName(IF Len(entryParts) = 2 THEN TrimSpace(entryParts[1])
                                  ELSE Star3, entityType) ],
             parseUserIdentity(userIdentity)) >> ]

buildEntry(entry, entityType, userIdentity) ==
  buildEntryParts(Split(entry, ":"), entityType, userIdentity)

\* variant of Chain: the grants read before a malformed entry are returned
\* with the error
Chain_Partial(first, rest) ==
  IF first.err THEN first
  ELSE [ err |-> rest.err, grants |-> first.grants \o rest.grants ]

\* the grants of a first part followed by those of the rest; an error in
\* either leaves no grants
Chain(first, rest) ==
  IF first.err \/ rest.err THEN [ err |-> TRUE, grants |-> << >> ]
  ELSE [ err |-> FALSE, grants |-> first.grants \o rest.grants ]

\* the entries of one field, in order, stopping at the first malformed entry
RECURSIVE buildEntries(_, _, _)
buildEntries(entries, entityType, userIdentity) ==
  IF entries = << >> THEN [ err |-> FALSE, grants |-> << >> ]
  ELSE Chain(buildEntry(entries[1], entityType, userIdentity),
             buildEntries(Tail(entries), entityType, userIdentity))

\* buildPrivilegeGrant (closure of buildDorisGrants)
buildPrivilegeGrant(privs, entityType, userIdentity) ==
  IF privs.Valid /\ privs.String # Empty
  THEN buildEntries(Split(privs.String, ";"), entityType, userIdentity)
  ELSE [ err |-> FALSE, grants |-> << >> ]

\* the privilege-class fields in the order buildDorisGrants reads them
FieldOrder ==
  << << "GlobalPrivs", Table >>, << "CatalogPrivs", Table >>,
     << "DatabasePrivs", Table >>, << "TablePrivs", Table >>,
     << "ColPrivs", Table >>, << "ResourcePrivs", Resource >>,
     << "WorkloadGroupPrivs", WorkloadGroup >> >>

RECURSIVE buildFields(_, _)
buildFields(grant, k) ==
  IF k > Len(FieldOrder) THEN [ err |-> FALSE, grants |-> << >> ]
  ELSE Chain(buildPrivilegeGrant(grant[FieldOrder[k][1]], FieldOrder[k][2],
                                 grant.UserIdentity.String),
             buildFields(grant, k + 1))

\* buildDorisGrants: the Roles field of the row is not read
buildDorisGrants(grant) == buildFields(grant, 1)

(***************************************************************************)
(* Resource data (schema.ResourceData) and parseResourceFromData.          *)
(***************************************************************************)

\* d.GetOk on a string field: the value and whether it is non-zero
GetOkStr(v) == v # Empty

\* parseResourceFromData, step 1: the user or role, or an error
parseUserOrRole(d) ==
  IF (GetOkStr(d.user) /\ d.user = Empty) /\ (GetOkStr(d.role) /\ d.role = Empty)
  THEN [ err |-> TRUE, userOrRole |-> [ Name |-> Empty, Host |-> Empty ] ]
  ELSE IF GetOkStr(d.user) /\ GetOkStr(d.host) /\ d.user # Empty /\ d.host # Empty
  THEN [ err |-> FALSE, userOrRole |-> [ Name |-> d.user, Host |-> d.host ] ]
  ELSE IF GetOkStr(d.role) /\ d.role # Empty
  THEN [ err |-> FALSE, userOrRole |-> [ Name |-> d.role, Host |-> Empty ] ]
  ELSE [ err |-> TRUE, userOrRole |-> [ Name |-> Empty, Host |-> Empty ] ]

\* parseResourceFromData, steps 2 and 3: the entity as declared, and a role
\* grant when roles is set, else a privilege grant
parseGrantFor(d, who) ==
  IF who.err THEN [ grant |-> NilGrant, diagErr |-> TRUE ]
  ELSE IF d.roles # {}
  THEN [ grant |-> RoleGrant(setToArray(d.roles), who.userOrRole), diagErr |-> FALSE ]
  ELSE [ grant |-> PrivilegeGrant(normalizePerms(setToArray(d.privileges)),
                                  [ Type |-> d.entity_type, Name |-> d.entity_name ],
                                  who.userOrRole),
         diagErr |-> FALSE ]

\* parseResourceFromData: a grant, or nil with an error diagnostic
parseResourceFromData(d) == parseGrantFor(d, parseUserOrRole(d))

\* mysqlErrorNumber: the server's error number of an error, 0 for none
mysqlErrorNumber(err) == err

\* isNonExistingGrant
isNonExistingGrant(err) == mysqlErrorNumber(err) \in { 1141, 1147, 1403 }


ER_NONEXISTING_GRANT == 1141
ER_NONEXISTING_TABLE_GRANT == 1147
ER_NONEXISTING_PROC_GRANT == 1403
unknownDatabaseErrCode == 1049

\* the error numbers isNonExistingGrant names, and one it does not
AbsentCodes == { ER_NONEXISTING_GRANT, ER_NONEXISTING_TABLE_GRANT, ER_NONEXISTING_PROC_GRANT }
OtherCodes == { unknownDatabaseErrCode }

(***************************************************************************)
(* State.                                                                  *)
(***************************************************************************)

VARIABLES
  srvPrivs,   \* the server's privilege grants: records [who, ent, priv]
  srvRoles,   \* the server's role grants: records [who, role]
  locks,      \* grantCreateMutex: the keys that are locked
  proc,       \* per worker: the lifecycle call it is running
  nops        \* the number of lifecycle calls started so far

vars == << srvPrivs, srvRoles, locks, proc, nops >>

\* the workers on which the framework runs lifecycle calls
Procs == { "w1", "w2" }

\* the number of lifecycle calls of one run
MaxOps == 2

(***************************************************************************)
(* The database server (external): GRANT, REVOKE and SHOW GRANTS.          *)
(***************************************************************************)

\* the server's name of an entity: a table name in three parts
ServerEntity(e) ==
  IF e.Type = Table
  THEN [ e EXCEPT !.Name = Join(PadParts(Split(e.Name, ".")), << "." >>) ]
  ELSE e

\* the privileges the server holds for a grantee on an entity
HeldPrivs(who, ent) ==
  { x.priv : x \in { y \in srvPrivs : y.who = who /\ y.ent = ServerEntity(ent) } }

HeldRoles(who) == { x.role : x \in { y \in srvRoles : y.who = who } }

\* the server after GRANT / REVOKE of the privileges privs of grant g
PrivsAfterGrant(g, privs) ==
  srvPrivs \cup { [ who |-> g.UserOrRole, ent |-> ServerEntity(g.Entity), priv |-> x ] :
                  x \in Range(privs) }

PrivsAfterRevoke(g, privs) ==
  srvPrivs \ { [ who |-> g.UserOrRole, ent |-> ServerEntity(g.Entity), priv |-> x ] :
               x \in Range(privs) }

RolesAfterGrant(g) ==
  srvRoles \cup { [ who |-> g.UserOrRole, role |-> x ] : x \in Range(g.Roles) }

RolesAfterRevoke(g) ==
  srvRoles \ { [ who |-> g.UserOrRole, role |-> x ] : x \in Range(g.Roles) }

\* whether the server holds anything of what grant g names
ServerHolds(g) ==
  IF g.kind = "PrivilegeGrant" THEN HeldPrivs(g.UserOrRole, g.Entity) # {}
  ELSE HeldRoles(g.UserOrRole) \cap Range(g.Roles) # {}

\* one entry of a privilege-class field: "name:priv,priv", or the
\* privileges alone
RowEntry(who, typ, name, bare) ==
  IF bare THEN Join(SetList(HeldPrivs(who, [ Type |-> typ, Name |-> name ])), << "," >>)
  ELSE Cat(<< name, Colon,
              Join(SetList(HeldPrivs(who, [ Type |-> typ, Name |-> name ])), << "," >>) >>)

RowEntries(who, typ, names, bare) ==
  Join([ k \in 1..Len(names) |-> RowEntry(who, typ, names[k], bare) ], << ";" >>)

\* one privilege-class field of the row: its entries in ascending order of
\* entity name, or NULL when there is none
RowField(who, typ, names, bare) ==
  IF names = {} THEN Null ELSE Str(RowEntries(who, typ, SetList(names), bare))

\* the names of the entities of a type the server holds privileges on for who
HeldNames(who, typ) ==
  { x.ent.Name : x \in { y \in srvPrivs : y.who = who /\ y.ent.Type = typ } }

\* the row SHOW GRANTS returns for a grantee: privileges on *.*.* in
\* GlobalPrivs without a name, other tables in TablePrivs
ServerRow(who) ==
  [ UserIdentity |->
      Str(IF who.Host = Empty THEN who.Name
          ELSE Cat(<< Quote, who.Name, Quote, At, Quote, who.Host, Quote >>)),
    Comment |-> Null,
    Password |-> Null,
    Roles |-> IF HeldRoles(who) = {} THEN Null
              ELSE Str(Join(SetList(HeldRoles(who)), << "," >>)),
    GlobalPrivs |-> RowField(who, Table, HeldNames(who, Table) \cap { Star3 }, TRUE),
    CatalogPrivs |-> Null,
    DatabasePrivs |-> Null,
    TablePrivs |-> RowField(who, Table, HeldNames(who, Table) \ { Star3 }, FALSE),
    ColPrivs |-> Null,
    ResourcePrivs |-> RowField(who, Resource, HeldNames(who, Resource), FALSE),
    WorkloadGroupPrivs |-> RowField(who, WorkloadGroup, HeldNames(who, WorkloadGroup), FALSE) ]

\* a row whose TablePrivs field holds an entry with two colons
BadEntry == << "a", ":", "b", ":", "c" >>

MalformedRow(row) ==
  [ row EXCEPT !.TablePrivs =
      IF row.TablePrivs.Valid
      THEN Str(Cat(<< row.TablePrivs.String, << ";" >>, BadEntry >>))
      ELSE Str(BadEntry) ]

\* the error of SHOW GRANTS for a grantee the server holds nothing for (the
\* other two grant-does-not-exist numbers are errors of REVOKE)
ShowGrantsAbsentCodes == { ER_NONEXISTING_GRANT }

\* what db.QueryContext of SHOW GRANTS can return: an error number (0 for
\* none), whether there is a row, and the row.  The grant-does-not-exist
\* error and the empty result occur only when the server holds nothing for
\* the grantee.
QueryOutcomesOf(row, nothing) ==
  { [ err |-> 0, hasRow |-> TRUE, row |-> row ],
    [ err |-> 0, hasRow |-> TRUE, row |-> MalformedRow(row) ] }
  \cup { [ err |-> c, hasRow |-> FALSE, row |-> Null ] : c \in OtherCodes }
  \cup IF nothing
       THEN { [ err |-> c, hasRow |-> FALSE, row |-> Null ] : c \in ShowGrantsAbsentCodes }
            \cup { [ err |-> 0, hasRow |-> FALSE, row |-> Null ] }
       ELSE {}

QueryOutcomes(who) ==
  QueryOutcomesOf(ServerRow(who),
                  (\A y \in srvPrivs : y.who # who) /\ (\A y \in srvRoles : y.who # who))

\* what db.ExecContext of a GRANT can return
GrantOutcomes == { 0 } \cup OtherCodes

\* what db.ExecContext of a REVOKE can return: a grant-does-not-exist error
\* only when the server holds nothing of what the statement names
RevokeOutcomes(held) ==
  { 0 } \cup OtherCodes \cup (IF held THEN {} ELSE AbsentCodes)


(***************************************************************************)
(* The handlers' helpers.                                                  *)
(***************************************************************************)

\* variant of showPrivilegeGrants: every error of the query gives no grants
showPrivilegeGrants_ErrorsAbsent(outcome) ==
  IF outcome.err # 0 THEN [ err |-> FALSE, grants |-> << >> ]
  ELSE IF ~outcome.hasRow THEN [ err |-> FALSE, grants |-> << >> ]
  ELSE buildDorisGrants(outcome.row)

\* showPrivilegeGrants, given what the query returned: a grant-does-not-exist
\* error and an empty result give no grants, another error or a row that
\* does not parse gives an error
showPrivilegeGrants(outcome) ==
  IF isNonExistingGrant(outcome.err) THEN [ err |-> FALSE, grants |-> << >> ]
  ELSE IF outcome.err # 0 THEN [ err |-> TRUE, grants |-> << >> ]
  ELSE IF ~outcome.hasRow THEN [ err |-> FALSE, grants |-> << >> ]
  ELSE buildDorisGrants(outcome.row)

\* the loop of getMatchingGrant: the first grant desiredGrant conflicts with
RECURSIVE FirstConflict(_, _)
FirstConflict(desiredGrant, allGrants) ==
  IF allGrants = << >> THEN NilGrant
  ELSE IF ConflictsWithGrant(desiredGrant, allGrants[1]) THEN allGrants[1]
  ELSE FirstConflict(desiredGrant, Tail(allGrants))

\* getMatchingGrant, given what the query returned
getMatchingGrantIn(desiredGrant, shown) ==
  IF shown.err THEN [ err |-> TRUE, grant |-> NilGrant ]
  ELSE [ err |-> FALSE, grant |-> FirstConflict(desiredGrant, shown.grants) ]

getMatchingGrant(desiredGrant, outcome) ==
  getMatchingGrantIn(desiredGrant, showPrivilegeGrants(outcome))

\* setDataFromGrant: roles of a role grant
SetRoles(grant, d) ==
  IF grant.kind = "RoleGrant" THEN [ d EXCEPT !.roles = Range(grant.Roles) ] ELSE d

\* variant of SetPrivileges: the privileges are set whenever a privilege
\* grant was found
SetPrivileges_Every(grant, d) ==
  IF grant.kind # "PrivilegeGrant" THEN d
  ELSE [ d EXCEPT !.privileges = Range(grant.Privileges) ]

\* setDataFromGrant: privileges only when unset or different once normalized
SetPrivileges(grant, d) ==
  IF grant.kind # "PrivilegeGrant" THEN d
  ELSE IF d.privileges = {} THEN [ d EXCEPT !.privileges = Range(grant.Privileges) ]
  ELSE IF normalizePerms(setToArray(d.privileges)) # grant.Privileges
  THEN [ d EXCEPT !.privileges = Range(grant.Privileges) ]
  ELSE d

\* setDataFromGrant: the entity of a privilege grant
SetEntity(grant, d) ==
  IF grant.kind = "PrivilegeGrant"
  THEN [ d EXCEPT !.entity_type = grant.Entity.Type, !.entity_name = grant.Entity.Name ]
  ELSE d

\* setDataFromGrant: role, or user and host, and the id
SetUserOrRole(grant, d) ==
  IF d.role # Empty
  THEN [ d EXCEPT !.role = grant.UserOrRole.Name, !.id = GetId(grant) ]
  ELSE [ d EXCEPT !.user = grant.UserOrRole.Name, !.host = grant.UserOrRole.Host,
                  !.id = GetId(grant) ]

\* setDataFromGrant
setDataFromGrant(grant, d) ==
  SetUserOrRole(grant, SetEntity(grant, SetPrivileges(grant, SetRoles(grant, d))))

\* variant of ReadGrantWith: the identity is kept when nothing matches
ReadGrantWith_KeepId(d, m) ==
  IF m.err THEN [ d |-> d, ret |-> "err_show" ]
  ELSE IF m.grant.kind = "nil" THEN [ d |-> d, ret |-> "ok" ]
  ELSE [ d |-> setDataFromGrant(m.grant, d), ret |-> "ok" ]

\* ReadGrant after getMatchingGrant
ReadGrantWith(d, m) ==
  IF m.err THEN [ d |-> d, ret |-> "err_show" ]
  ELSE IF m.grant.kind = "nil" THEN [ d |-> [ d EXCEPT !.id = Empty ], ret |-> "ok" ]
  ELSE [ d |-> setDataFromGrant(m.grant, d), ret |-> "ok" ]

\* ReadGrant after its parse of d succeeded, given what the query returned:
\* the resource data and the diagnostics it returns
ReadGrant(d, grantFromTf, outcome) ==
  ReadGrantWith(d, getMatchingGrant(grantFromTf, outcome))

\* the text of the SHOW GRANTS statement
ShowGrantsSQL(userOrRole) == Cat(<< KwShowGrantsFor, UserOrRoleSQLString(userOrRole) >>)

\* variant of LockKey: one key per grant instead of one per grantee
LockKey_PerGrant(grant) == GetId(grant)

\* the key of grantCreateMutex a Create or Delete of this grant locks
LockKey(grant) == UserOrRoleIDString(grant.UserOrRole)

\* KeyedMutex: Lock(key) returns once no other holder has the key
KeyedMutexFree(key) == key \notin locks

(***************************************************************************)
(* Declared configurations.                                                *)
(***************************************************************************)

NameU == << "u" >>
NameH == << "h" >>
NameR == << "r" >>
NameR1 == << "r", "1" >>
NameDT == << "d", ".", "t", ".", "*" >>
NameD == << "d" >>
NameRs == << "r", "s" >>
SELECT == << "S", "E", "L", "E", "C", "T" >>
UPDATE == << "U", "P", "D", "A", "T", "E" >>
INSERT == << "I", "N", "S", "E", "R", "T" >>
USAGE == << "U", "S", "A", "G", "E" >>
lcUpdate == << "u", "p", "d", "a", "t", "e" >>
lcSelect == << "s", "e", "l", "e", "c", "t" >>
Localhost == << "l", "o", "c", "a", "l", "h", "o", "s", "t" >>

Data(user, host, role, etype, ename, privs, roles) ==
  [ id |-> Empty, user |-> user, host |-> host, role |-> role,
    entity_type |-> etype, entity_name |-> ename,
    privileges |-> privs, roles |-> roles, oldPrivileges |-> privs ]

\* user u@h on table d.t.*, on the same table with another privilege
\* list, and on the table named d; a role grant to u@h; a configuration with
\* neither user nor role (host keeps its default); role r on a resource
CfgTable == Data(NameU, NameH, Empty, Table, NameDT, { SELECT }, {})
CfgTable2 == Data(NameU, NameH, Empty, Table, NameDT, { lcUpdate }, {})
CfgShort == Data(NameU, NameH, Empty, Table, NameD, { SELECT }, {})
CfgRoles == Data(NameU, NameH, Empty, Table, NameDT, {}, { NameR1 })
CfgNobody == Data(Empty, Localhost, Empty, Table, NameDT, { SELECT }, {})
CfgRoleRes == Data(Empty, Localhost, NameR, Resource, NameRs, { USAGE }, {})

Configs == { CfgTable, CfgTable2, CfgShort, CfgRoles, CfgNobody, CfgRoleRes }

\* the configurations of resources that exist in the state
StateConfigs == { c \in Configs : ~parseResourceFromData(c).diagErr }


(***************************************************************************)
(* Lifecycle calls.  Each database statement is one step; a call that      *)
(* returns runs its deferred Unlock in the step that returns.              *)
(***************************************************************************)

IdleProc ==
  [ op |-> "none", pc |-> "idle", d |-> Data(Empty, Empty, Empty, Empty, Empty, {}, {}),
    grant |-> NilGrant, ret |-> "", log |-> << >> ]

\* a nil-pointer panic ends the provider process: nothing runs after it
Alive == \A q \in Procs : proc[q].ret # "panic"

CanStart(p) == Alive /\ proc[p].pc \in { "idle", "done" } /\ nops < MaxOps

\* the statements a call has sent, each with the error number it returned
\* (0 for none) and, for a query, the row it returned
Logged(p, sql, err) ==
  Append(proc[p].log, [ sql |-> sql, err |-> err, hasRow |-> FALSE, row |-> Null ])

LoggedQuery(p, sql, outcome) ==
  Append(proc[p].log, [ sql |-> sql, err |-> outcome.err, hasRow |-> outcome.hasRow,
                        row |-> outcome.row ])

\* the record of a call that starts: a nil grant with err nil panics
Started(op, d, r, err, pc) ==
  [ op |-> op, d |-> d, grant |-> r.grant, log |-> << >>,
    pc |-> IF err \/ r.grant.kind = "nil" THEN "done" ELSE pc,
    ret |-> IF err THEN "err_parse" ELSE IF r.grant.kind = "nil" THEN "panic" ELSE "" ]

\* CreateGrant up to the call of Lock: the parse's diagnostics are tested
\* through err, which is nil here, so a nil grant reaches GetUserOrRole
CreateStart(p, cfg) ==
  /\ CanStart(p)
  /\ proc' = [ proc EXCEPT ![p] =
                 Started("Create", cfg, parseResourceFromData(cfg), FALSE, "c_lock") ]
  /\ nops' = nops + 1
  /\ UNCHANGED << srvPrivs, srvRoles, locks >>

\* grantCreateMutex.Lock(grant.GetUserOrRole().IDString()) in CreateGrant
CreateLock(p) ==
  /\ Alive
  /\ proc[p].pc = "c_lock"
  /\ KeyedMutexFree(LockKey(proc[p].grant))
  /\ locks' = locks \cup { LockKey(proc[p].grant) }
  /\ proc' = [ proc EXCEPT ![p].pc = "c_check" ]
  /\ UNCHANGED << srvPrivs, srvRoles, nops >>

\* CreateGrant after getMatchingGrant returned m: an error or a conflicting
\* grant returns (and unlocks), otherwise the GRANT is next
CreateChecked(p, m, outcome) ==
  IF m.err \/ m.grant.kind # "nil"
  THEN /\ proc' = [ proc EXCEPT ![p].pc = "done",
                      ![p].log = LoggedQuery(p, ShowGrantsSQL(proc[p].grant.UserOrRole), outcome),
                      ![p].ret = IF m.err THEN "err_show" ELSE "err_exists" ]
       /\ locks' = locks \ { LockKey(proc[p].grant) }
  ELSE /\ proc' = [ proc EXCEPT ![p].pc = "c_grant",
                      ![p].log = LoggedQuery(p, ShowGrantsSQL(proc[p].grant.UserOrRole), outcome) ]
       /\ locks' = locks

\* CreateGrant: the conflict check
CreateCheck(p) ==
  /\ Alive
  /\ proc[p].pc = "c_check"
  /\ \E outcome \in QueryOutcomes(proc[p].grant.UserOrRole) :
       CreateChecked(p, getMatchingGrant(proc[p].grant, outcome), outcome)
  /\ UNCHANGED << srvPrivs, srvRoles, nops >>

\* variant of CreateExecuted: the lock is kept when the GRANT fails
CreateExecuted_KeepsLock(p, grant, e) ==
  IF e # 0
  THEN /\ proc' = [ proc EXCEPT ![p].pc = "done", ![p].ret = "err_sql",
                      ![p].log = Logged(p, SQLGrantStatement(grant), e) ]
       /\ locks' = locks
       /\ UNCHANGED << srvPrivs, srvRoles >>
  ELSE /\ proc' = [ proc EXCEPT ![p].pc = "c_read", ![p].d.id = GetId(grant),
                      ![p].log = Logged(p, SQLGrantStatement(grant), e) ]
       /\ locks' = locks
       /\ IF grant.kind = "PrivilegeGrant"
          THEN srvPrivs' = PrivsAfterGrant(grant, grant.Privileges)
               /\ srvRoles' = srvRoles
          ELSE srvRoles' = RolesAfterGrant(grant) /\ srvPrivs' = srvPrivs

\* CreateGrant after ExecContext of the GRANT returned error number e
CreateExecuted(p, grant, e) ==
  IF e # 0
  THEN /\ proc' = [ proc EXCEPT ![p].pc = "done", ![p].ret = "err_sql",
                      ![p].log = Logged(p, SQLGrantStatement(grant), e) ]
       /\ locks' = locks \ { LockKey(grant) }
       /\ UNCHANGED << srvPrivs, srvRoles >>
  ELSE /\ proc' = [ proc EXCEPT ![p].pc = "c_read", ![p].d.id = GetId(grant),
                      ![p].log = Logged(p, SQLGrantStatement(grant), e) ]
       /\ locks' = locks
       /\ IF grant.kind = "PrivilegeGrant"
          THEN srvPrivs' = PrivsAfterGrant(grant, grant.Privileges)
               /\ srvRoles' = srvRoles
          ELSE srvRoles' = RolesAfterGrant(grant) /\ srvPrivs' = srvPrivs

\* CreateGrant: the GRANT statement and SetId
CreateExec(p) ==
  /\ Alive
  /\ proc[p].pc = "c_grant"
  /\ \E e \in GrantOutcomes : CreateExecuted(p, proc[p].grant, e)
  /\ nops' = nops

\* a call that ends with what ReadGrant returned
ReadDone(p, grantFromTf, r, outcome) ==
  proc' = [ proc EXCEPT ![p].pc = "done", ![p].d = r.d, ![p].ret = r.ret,
              ![p].log = LoggedQuery(p, ShowGrantsSQL(grantFromTf.UserOrRole), outcome) ]

\* ReadGrant called by CreateGrant: d is parsed again
CreateReadOf(p, grantFromTf) ==
  \E outcome \in QueryOutcomes(grantFromTf.UserOrRole) :
    ReadDone(p, grantFromTf, ReadGrant(proc[p].d, grantFromTf, outcome), outcome)

\* CreateGrant: return ReadGrant(ctx, d, meta), then the deferred Unlock
CreateRead(p) ==
  /\ Alive
  /\ proc[p].pc = "c_read"
  /\ CreateReadOf(p, parseResourceFromData(proc[p].d).grant)
  /\ locks' = locks \ { LockKey(proc[p].grant) }
  /\ UNCHANGED << srvPrivs, srvRoles, nops >>

\* the record of a ReadGrant that starts: a parse error returns
ReadStarted(cfg, r) ==
  [ op |-> "Read", d |-> [ cfg EXCEPT !.id = GetId(r.grant) ], grant |-> r.grant,
    log |-> << >>,
    pc |-> IF r.diagErr THEN "done" ELSE "r_query",
    ret |-> IF r.diagErr THEN "err_parse" ELSE "" ]

\* ReadGrant up to the query, on a resource of the state
ReadStart(p, cfg) ==
  /\ CanStart(p)
  /\ proc' = [ proc EXCEPT ![p] = ReadStarted(cfg, parseResourceFromData(cfg)) ]
  /\ nops' = nops + 1
  /\ UNCHANGED << srvPrivs, srvRoles, locks >>

\* ReadGrant: the query and what follows it
ReadQuery(p) ==
  /\ Alive
  /\ proc[p].pc = "r_query"
  /\ \E outcome \in QueryOutcomes(proc[p].grant.UserOrRole) :
       ReadDone(p, proc[p].grant, ReadGrant(proc[p].d, proc[p].grant, outcome),
                outcome)
  /\ UNCHANGED << srvPrivs, srvRoles, locks, nops >>

\* DeleteGrant up to the call of Lock, on a resource of the state: as in
\* CreateGrant the parse's diagnostics are tested through err
DeleteStart(p, cfg) ==
  /\ CanStart(p)
  /\ proc' = [ proc EXCEPT ![p] =
                 Started("Delete", [ cfg EXCEPT !.id = GetId(parseResourceFromData(cfg).grant) ],
                         parseResourceFromData(cfg), FALSE, "d_lock") ]
  /\ nops' = nops + 1
  /\ UNCHANGED << srvPrivs, srvRoles, locks >>

\* grantCreateMutex.Lock(grant.GetUserOrRole().IDString()) in DeleteGrant
DeleteLock(p) ==
  /\ Alive
  /\ proc[p].pc = "d_lock"
  /\ KeyedMutexFree(LockKey(proc[p].grant))
  /\ locks' = locks \cup { LockKey(proc[p].grant) }
  /\ proc' = [ proc EXCEPT ![p].pc = "d_exec" ]
  /\ UNCHANGED << srvPrivs, srvRoles, nops >>

\* variant of DeleteResult: every error of the REVOKE is returned
DeleteResult_EveryError(e) == IF e # 0 THEN "err_sql" ELSE "ok"

\* what DeleteGrant returns for the error number of its REVOKE
DeleteResult(e) == IF e # 0 /\ ~isNonExistingGrant(e) THEN "err_sql" ELSE "ok"

\* DeleteGrant after ExecContext of the REVOKE returned error number e
DeleteExecuted(p, grant, e) ==
  /\ proc' = [ proc EXCEPT ![p].pc = "done", ![p].ret = DeleteResult(e),
                 ![p].log = Logged(p, SQLRevokeStatement(grant), e) ]
  /\ IF e # 0 THEN UNCHANGED << srvPrivs, srvRoles >>
     ELSE IF grant.kind = "PrivilegeGrant"
     THEN srvPrivs' = PrivsAfterRevoke(grant, grant.Privileges) /\ srvRoles' = srvRoles
     ELSE srvRoles' = RolesAfterRevoke(grant) /\ srvPrivs' = srvPrivs

\* DeleteGrant: the REVOKE statement, the return and the deferred Unlock
DeleteExec(p) ==
  /\ Alive
  /\ proc[p].pc = "d_exec"
  /\ \E e \in RevokeOutcomes(ServerHolds(proc[p].grant)) :
       DeleteExecuted(p, proc[p].grant, e)
  /\ locks' = locks \ { LockKey(proc[p].grant) }
  /\ nops' = nops

Init ==
  /\ srvPrivs = {}
  /\ srvRoles = {}
  /\ locks = {}
  /\ proc = [ p \in Procs |-> IdleProc ]
  /\ nops = 0

Next ==
  \/ \E p \in Procs, cfg \in Configs : CreateStart(p, cfg)
  \/ \E p \in Procs : CreateLock(p)
  \/ \E p \in Procs : CreateCheck(p)
  \/ \E p \in Procs : CreateExec(p)
  \/ \E p \in Procs : CreateRead(p)
  \/ \E p \in Procs, cfg \in StateConfigs : ReadStart(p, cfg)
  \/ \E p \in Procs : ReadQuery(p)
  \/ \E p \in Procs, cfg \in StateConfigs : DeleteStart(p, cfg)
  \/ \E p \in Procs : DeleteLock(p)
  \/ \E p \in Procs : DeleteExec(p)

Spec == Init /\ [][Next]_vars

(***************************************************************************)
(* UpdateGrant and updatePrivileges.  One Update of one resource of the    *)
(* state is followed: d holds the old privilege set (oldPrivileges) and    *)
(* the new one (privileges), as d.GetChange returns them.                  *)
(***************************************************************************)

ColsAB == << "S", "E", "L", "E", "C", "T", "(", "a", ",", "b", ")" >>
ColsBA == << "s", "e", "l", "e", "c", "t", " ", "(", "b", ",", " ", "a", ")" >>

\* the privilege strings a configuration is written with
RawPrivs == { SELECT, UPDATE, INSERT, lcSelect, lcUpdate, ColsAB, ColsBA }

\* the largest privilege set of a configuration
MaxSetSize == 2

PrivSets == { S \in SUBSET RawPrivs : S # {} /\ Cardinality(S) <= MaxSetSize }

\* the resources that are updated: privilege grants to a user and to a role,
\* and a role grant whose configuration also sets privileges (the schema's
\* ConflictsWith lets that pass when privileges is unknown at validation)
UpdateConfigs == { CfgTable, CfgRoleRes, CfgRoles }

\* d.HasChange("privileges")
HasChange(d) == d.oldPrivileges # d.privileges

\* updatePrivileges: newPrivs.Difference(oldPrivs).List()
grantIfs(d) == setToArray(d.privileges \ d.oldPrivileges)

\* updatePrivileges: oldPrivs.Difference(newPrivs).List()
revokeIfs(d) == setToArray(d.oldPrivileges \ d.privileges)

\* updatePrivileges: the privileges to revoke, normalized
privsToRevoke(d) == normalizePerms(revokeIfs(d))

\* where updatePrivileges goes once the partial revoke is done or skipped
AfterRevoke(d) == IF Len(grantIfs(d)) > 0 THEN "u_grant" ELSE "done"

\* the record of an UpdateGrant up to its first statement
UpdateStarted(d, r) ==
  [ op |-> "Update", d |-> d, grant |-> r.grant, log |-> << >>,
    pc |-> IF ~HasChange(d) \/ r.diagErr THEN "done"
           ELSE IF Len(privsToRevoke(d)) > 0
           THEN (IF PrivilegesPartiallyRevocable(r.grant) THEN "u_revoke" ELSE "done")
           ELSE AfterRevoke(d),
    ret |-> IF ~HasChange(d) THEN "ok"
            ELSE IF r.diagErr THEN "err_parse"
            ELSE IF Len(privsToRevoke(d)) > 0
            THEN (IF PrivilegesPartiallyRevocable(r.grant) THEN "" ELSE "err_norevoke")
            ELSE IF AfterRevoke(d) = "done" THEN "ok" ELSE "" ]

UpdateStartOf(p, d) ==
  proc' = [ proc EXCEPT ![p] = UpdateStarted(d, parseResourceFromData(d)) ]

\* UpdateGrant up to its first statement, for a new privilege set
UpdateStart(p, newPrivs) ==
  /\ \A q \in Procs : proc[q].pc = "idle"
  /\ UpdateStartOf(p, [ proc[p].d EXCEPT !.privileges = newPrivs ])
  /\ UNCHANGED << srvPrivs, srvRoles, locks, nops >>

\* variant of UpdateRevoked: an error of the partial REVOKE is passed over
\* and the full GRANT follows
UpdateRevoked_Continue(p, grant, toRevoke, e) ==
  /\ proc' = [ proc EXCEPT
                 ![p].pc = AfterRevoke(proc[p].d),
                 ![p].ret = IF AfterRevoke(proc[p].d) = "done" THEN "ok" ELSE "",
                 ![p].log = Logged(p, SQLPartialRevokePrivilegesStatement(grant, toRevoke), e) ]
  /\ srvPrivs' = IF e # 0 THEN srvPrivs ELSE PrivsAfterRevoke(grant, toRevoke)

\* updatePrivileges after ExecContext of the partial REVOKE returned e
UpdateRevoked(p, grant, toRevoke, e) ==
  /\ proc' = [ proc EXCEPT
                 ![p].pc = IF e # 0 THEN "done" ELSE AfterRevoke(proc[p].d),
                 ![p].ret = IF e # 0 THEN "err_sql"
                            ELSE IF AfterRevoke(proc[p].d) = "done" THEN "ok" ELSE "",
                 ![p].log = Logged(p, SQLPartialRevokePrivilegesStatement(grant, toRevoke), e) ]
  /\ srvPrivs' = IF e # 0 THEN srvPrivs ELSE PrivsAfterRevoke(grant, toRevoke)

\* updatePrivileges: the partial revoke of what has been removed
UpdateRevoke(p) ==
  /\ proc[p].pc = "u_revoke"
  /\ \E e \in RevokeOutcomes(ServerHolds(proc[p].grant)) :
       UpdateRevoked(p, proc[p].grant, privsToRevoke(proc[p].d), e)
  /\ UNCHANGED << srvRoles, locks, nops >>

\* updatePrivileges after ExecContext of the full GRANT returned e
UpdateRegranted(p, grant, e) ==
  /\ proc' = [ proc EXCEPT ![p].pc = "done",
                 ![p].ret = IF e # 0 THEN "err_sql" ELSE "ok",
                 ![p].log = Logged(p, SQLGrantStatement(grant), e) ]
  /\ IF e # 0 THEN UNCHANGED << srvPrivs, srvRoles >>
     ELSE IF grant.kind = "PrivilegeGrant"
     THEN srvPrivs' = PrivsAfterGrant(grant, grant.Privileges) /\ srvRoles' = srvRoles
     ELSE srvRoles' = RolesAfterGrant(grant) /\ srvPrivs' = srvPrivs

\* updatePrivileges: the full grant when anything has been added
UpdateRegrant(p) ==
  /\ proc[p].pc = "u_grant"
  /\ \E e \in GrantOutcomes : UpdateRegranted(p, proc[p].grant, e)
  /\ UNCHANGED << locks, nops >>

\* the resource as the state holds it after old was applied
StateData(cfg, old) ==
  [ cfg EXCEPT !.privileges = old, !.oldPrivileges = old,
               !.id = GetId(parseResourceFromData(cfg).grant) ]

\* what the server holds for a resource of the state
AppliedPrivs(grant) ==
  IF grant.kind # "PrivilegeGrant" THEN {}
  ELSE { [ who |-> grant.UserOrRole, ent |-> ServerEntity(grant.Entity), priv |-> x ] :
         x \in Range(grant.Privileges) }

AppliedRoles(grant) ==
  IF grant.kind # "RoleGrant" THEN {}
  ELSE { [ who |-> grant.UserOrRole, role |-> x ] : x \in Range(grant.Roles) }

InitUpdateOf(d) ==
  /\ srvPrivs = AppliedPrivs(parseResourceFromData(d).grant)
  /\ srvRoles = AppliedRoles(parseResourceFromData(d).grant)
  /\ locks = {}
  /\ proc = [ p \in Procs |-> [ IdleProc EXCEPT !.d = d ] ]
  /\ nops = 0

InitUpdate == \E cfg \in UpdateConfigs, old \in PrivSets : InitUpdateOf(StateData(cfg, old))

NextUpdate ==
  \/ \E p \in Procs, newPrivs \in PrivSets : UpdateStart(p, newPrivs)
  \/ \E p \in Procs : UpdateRevoke(p)
  \/ \E p \in Procs : UpdateRegrant(p)

SpecUpdate == InitUpdate /\ [][NextUpdate]_vars

(***************************************************************************)
(* ConflictsWithGrant on pairs of grants (specification SpecConflicts).    *)
(* proc[p] holds the receiver t and the argument other of one call and,    *)
(* once pc is "done", what the call returned.                              *)
(***************************************************************************)

Percent == << "%" >>

\* grantees: a user at a host, at the wildcard host, and two roles
ConflictGrantees ==
  { [ Name |-> NameU, Host |-> NameH ], [ Name |-> NameU, Host |-> Percent ],
    [ Name |-> NameU, Host |-> Empty ], [ Name |-> NameR, Host |-> Empty ] }

\* entities: two tables, and a resource with the name of one of them
ConflictEntities ==
  { [ Type |-> Table, Name |-> NameDT ], [ Type |-> Table, Name |-> NameD ],
    [ Type |-> Resource, Name |-> NameD ] }

ConflictGrants ==
  { PrivilegeGrant(pv, e, w) :
      pv \in { << SELECT >>, << UPDATE >> }, e \in ConflictEntities, w \in ConflictGrantees }
  \cup { RoleGrant(<< NameR1 >>, w) : w \in ConflictGrantees }

ConflictsCallOf(t, other) ==
  [ op |-> "Conflicts", pc |-> "call", t |-> t, other |-> other, ret |-> FALSE ]

InitConflicts ==
  /\ \E t \in ConflictGrants, other \in ConflictGrants :
       proc = [ p \in Procs |-> ConflictsCallOf(t, other) ]
  /\ srvPrivs = {}
  /\ srvRoles = {}
  /\ locks = {}
  /\ nops = 0

\* one call t.ConflictsWithGrant(other)
ConflictsCall(p) ==
  /\ proc[p].pc = "call"
  /\ proc' = [ proc EXCEPT ![p].pc = "done",
                 ![p].ret = ConflictsWithGrant(proc[p].t, proc[p].other) ]
  /\ UNCHANGED << srvPrivs, srvRoles, locks, nops >>

NextConflicts == \E p \in Procs : ConflictsCall(p)

SpecConflicts == InitConflicts /\ [][NextConflicts]_vars

(***************************************************************************)
(* buildDorisGrants on rows (specification SpecParse).  proc[p] holds the  *)
(* row of one call and, once pc is "done", what the call returned.         *)
(***************************************************************************)

\* "db.tbl1.*:SELECT,UPDATE;db.tbl2.*:SELECT"
TwoTables ==
  << "d", "b", ".", "t", "b", "l", "1", ".", "*", ":", "S", "E", "L", "E",
     "C", "T", ",", "U", "P", "D", "A", "T", "E", ";", "d", "b", ".", "t",
     "b", "l", "2", ".", "*", ":", "S", "E", "L", "E", "C", "T" >>

\* " d : update , SELECT": spaces, lower case, unsorted, a one-part name
Untidy ==
  << " ", "d", " ", ":", " ", "u", "p", "d", "a", "t", "e", " ", ",", " ",
     "S", "E", "L", "E", "C", "T" >>

\* "d.t.*:SELECT;a:b:c": a well-formed entry before a malformed one
GoodThenBad ==
  << "d", ".", "t", ".", "*", ":", "S", "E", "L", "E", "C", "T", ";", "a",
     ":", "b", ":", "c" >>

\* "rs:USAGE"
ResUsage ==
  << "r", "s", ":", "U", "S", "A", "G", "E" >>

\* "g:USAGE"
GroupUsage ==
  << "g", ":", "U", "S", "A", "G", "E" >>

\* "'u'@'h'"
QuotedUser ==
  << "'", "u", "'", "@", "'", "h", "'" >>

\* "r1,r2"
TwoRoles ==
  << "r", "1", ",", "r", "2" >>

ParseRow(who, roles, glob, tab, res, wg) ==
  [ UserIdentity |-> Str(who), Comment |-> Null, Password |-> Null, Roles |-> roles,
    GlobalPrivs |-> glob, CatalogPrivs |-> Null, DatabasePrivs |-> Null,
    TablePrivs |-> tab, ColPrivs |-> Null, ResourcePrivs |-> res,
    WorkloadGroupPrivs |-> wg ]

\* the rows that are parsed
ParseRows ==
  { ParseRow(who, roles, glob, tab, res, wg) :
      who \in { QuotedUser, NameR },
      roles \in { Null, Str(NameR1), Str(TwoRoles) },
      glob \in { Null, Str(Empty), Str(SELECT), Str(BadEntry) },
      tab \in { Null, Str(TwoTables), Str(Untidy), Str(GoodThenBad), Str(BadEntry) },
      res \in { Null, Str(ResUsage), Str(BadEntry) },
      wg \in { Null, Str(GroupUsage) } }

ParseCallOf(row) ==
  [ op |-> "Parse", pc |-> "call", row |-> row,
    ret |-> [ err |-> FALSE, grants |-> << >> ] ]

InitParse ==
  /\ \E row \in ParseRows : proc = [ p \in Procs |-> ParseCallOf(row) ]
  /\ srvPrivs = {}
  /\ srvRoles = {}
  /\ locks = {}
  /\ nops = 0

\* one call buildDorisGrants(row)
ParseCall(p) ==
  /\ proc[p].pc = "call"
  /\ proc' = [ proc EXCEPT ![p].pc = "done", ![p].ret = buildDorisGrants(proc[p].row) ]
  /\ UNCHANGED << srvPrivs, srvRoles, locks, nops >>

NextParse == \E p \in Procs : ParseCall(p)

SpecParse == InitParse /\ [][NextParse]_vars

(***************************************************************************)
(* ImportGrant: the import ID of every call and the server's grants are    *)
(* drawn at the start; the split of the ID and the query are one step each.*)
(***************************************************************************)

NameJdoe == << "j", "d", "o", "e" >>
NameExample == << "e", "x", "a", "m", "p", "l", "e", ".", "c", "o", "m" >>
NameDbTbl == << "d", "b", ".", "t", "b", "l", ".", "*" >>
NameDAll == << "d", ".", "*", ".", "*" >>
NameDb2 == << "d", ".", "t" >>

\* import IDs of 4 and 5 segments, of a table named in one part, of a role
\* on a resource, and of 2 and 6 segments
IdTable == Cat(<< NameU, At, NameH, At, Table, At, NameDT >>)
IdTableOption == Cat(<< NameU, At, NameH, At, Table, At, NameDT, At >>)
IdShort == Cat(<< NameU, At, NameH, At, Table, At, NameD >>)
IdRoleRes == Cat(<< NameR, At, At, Resource, At, NameRs >>)
IdJdoe == Cat(<< NameJdoe, At, NameExample, At, Table, At, NameDbTbl >>)
IdTwo == Cat(<< NameU, At, NameH >>)
IdSix == Cat(<< NameU, At, NameH, At, Table, At, NameDT, At, NameU, At, NameH >>)

ImportIds == { IdTable, IdTableOption, IdShort, IdRoleRes, IdJdoe, IdTwo, IdSix }

\* what the server may hold when an import starts
ImportHeld ==
  { [ who |-> [ Name |-> NameU, Host |-> NameH ],
      ent |-> [ Type |-> Table, Name |-> NameDT ], priv |-> SELECT ],
    [ who |-> [ Name |-> NameU, Host |-> NameH ],
      ent |-> [ Type |-> Table, Name |-> NameDAll ], priv |-> UPDATE ],
    [ who |-> [ Name |-> NameR, Host |-> Empty ],
      ent |-> [ Type |-> Resource, Name |-> NameRs ], priv |-> USAGE ],
    [ who |-> [ Name |-> NameJdoe, Host |-> NameExample ],
      ent |-> [ Type |-> Table, Name |-> NameDbTbl ], priv |-> SELECT ] }

\* a row that names a table twice: the entry "d.t" of a later field is
\* filled to the name of the table-level entry "d.t.*"
DoubledRow(row) ==
  [ row EXCEPT !.ColPrivs = Str(Cat(<< NameDb2, Colon, UPDATE >>)) ]

\* what the query of an import can return
ImportOutcomes(who) ==
  QueryOutcomes(who) \cup { [ err |-> 0, hasRow |-> TRUE, row |-> DoubledRow(ServerRow(who)) ] }

\* variant of ImportSegmentsOK: four segments or more
ImportSegmentsOK_AtLeast(userHostEntity) == Len(userHostEntity) >= 4

\* len(userHostEntity) != 4 && len(userHostEntity) != 5 is the format error
ImportSegmentsOK(userHostEntity) ==
  ~(Len(userHostEntity) # 4 /\ Len(userHostEntity) # 5)

\* desiredGrant of the segments of the ID: no privileges, the name as given
ImportDesiredGrant(userHostEntity) ==
  PrivilegeGrant(<< >>,
                 [ Type |-> userHostEntity[3], Name |-> userHostEntity[4] ],
                 [ Name |-> userHostEntity[1], Host |-> userHostEntity[2] ])

\* variant of ImportFirstConflict: the last grant that conflicts
RECURSIVE ImportFirstConflict_Last(_, _)
ImportFirstConflict_Last(desiredGrant, grants) ==
  IF grants = << >> THEN NilGrant
  ELSE IF ConflictsWithGrant(grants[Len(grants)], desiredGrant) THEN grants[Len(grants)]
  ELSE ImportFirstConflict_Last(desiredGrant, SubSeq(grants, 1, Len(grants) - 1))

\* the loop of ImportGrant: the first found grant that conflicts with
\* desiredGrant (the receiver is the found grant)
RECURSIVE ImportFirstConflict(_, _)
ImportFirstConflict(desiredGrant, grants) ==
  IF grants = << >> THEN NilGrant
  ELSE IF ConflictsWithGrant(grants[1], desiredGrant) THEN grants[1]
  ELSE ImportFirstConflict(desiredGrant, Tail(grants))

\* resourceGrant().Data(nil)
EmptyData == Data(Empty, Empty, Empty, Empty, Empty, {}, {})

\* what ImportGrant returns once the loop is over
ImportFound(foundGrant) ==
  IF foundGrant.kind = "nil" THEN [ ret |-> "err_notfound", res |-> << >> ]
  ELSE [ ret |-> "ok", res |-> << setDataFromGrant(foundGrant, EmptyData) >> ]

\* what ImportGrant returns after showPrivilegeGrants
ImportResult(desiredGrant, shown) ==
  IF shown.err THEN [ ret |-> "err_show", res |-> << >> ]
  ELSE ImportFound(ImportFirstConflict(desiredGrant, shown.grants))

ImportCallOf(id) ==
  [ op |-> "Import", pc |-> "i_split", id |-> id, grant |-> NilGrant,
    ret |-> "", res |-> << >>, log |-> << >> ]

InitImport ==
  /\ \E id \in ImportIds : proc = [ p \in Procs |-> ImportCallOf(id) ]
  /\ srvPrivs \in SUBSET ImportHeld
  /\ srvRoles = {}
  /\ locks = {}
  /\ nops = 0

ImportSplitOf(call, userHostEntity) ==
  IF ImportSegmentsOK(userHostEntity)
  THEN [ call EXCEPT !.pc = "i_query", !.grant = ImportDesiredGrant(userHostEntity) ]
  ELSE [ call EXCEPT !.pc = "done", !.ret = "err_format" ]

\* ImportGrant up to getDatabaseFromMeta: the ID is split on "@"
ImportSplit(p) ==
  /\ proc[p].op = "Import" /\ proc[p].pc = "i_split"
  /\ proc' = [ proc EXCEPT ![p] = ImportSplitOf(proc[p], Split(proc[p].id, "@")) ]
  /\ UNCHANGED << srvPrivs, srvRoles, locks, nops >>

\* getDatabaseFromMeta fails: no statement is sent
ImportNoDatabase(p) ==
  /\ proc[p].op = "Import" /\ proc[p].pc = "i_query"
  /\ proc' = [ proc EXCEPT ![p].pc = "done", ![p].ret = "err_meta" ]
  /\ UNCHANGED << srvPrivs, srvRoles, locks, nops >>

ImportQueried(p, outcome, result) ==
  [ proc[p] EXCEPT !.pc = "done", !.ret = result.ret, !.res = result.res,
                   !.log = LoggedQuery(p, ShowGrantsSQL(proc[p].grant.UserOrRole), outcome) ]

\* showPrivilegeGrants and the loop over the found grants
ImportQuery(p) ==
  /\ proc[p].op = "Import" /\ proc[p].pc = "i_query"
  /\ \E outcome \in ImportOutcomes(proc[p].grant.UserOrRole) :
       proc' = [ proc EXCEPT ![p] =
                   ImportQueried(p, outcome,
                                 ImportResult(proc[p].grant, showPrivilegeGrants(outcome))) ]
  /\ UNCHANGED << srvPrivs, srvRoles, locks, nops >>

NextImport ==
  \E p \in Procs :
    \/ ImportSplit(p)
    \/ ImportNoDatabase(p)
    \/ ImportQuery(p)

SpecImport == InitImport /\ [][NextImport]_vars


(***************************************************************************)
(* The five operations together: an Update of the resource of the state,   *)
(* then Create, Read, Delete and Import calls.                             *)
(***************************************************************************)

\* the privilege sets the resource of the state was applied with, and the
\* sets it is updated to
OpsOldSets == { { SELECT, UPDATE }, { lcSelect } }
OpsNewSets == { { SELECT }, { INSERT }, { SELECT, INSERT } }

\* the import IDs of the calls
OpsIds == { IdTable, IdTwo }

InitOps == \E old \in OpsOldSets : InitUpdateOf(StateData(CfgTable, old))

\* ImportGrant is called with an ID
ImportStart(p, id) ==
  /\ CanStart(p)
  /\ proc' = [ proc EXCEPT ![p] = ImportCallOf(id) ]
  /\ nops' = nops + 1
  /\ UNCHANGED << srvPrivs, srvRoles, locks >>

NextOps ==
  \/ \E p \in Procs, newPrivs \in OpsNewSets : UpdateStart(p, newPrivs)
  \/ \E p \in Procs : UpdateRevoke(p)
  \/ \E p \in Procs : UpdateRegrant(p)
  \/ \E p \in Procs, id \in OpsIds : ImportStart(p, id)
  \/ \E p \in Procs : ImportSplit(p)
  \/ \E p \in Procs : ImportNoDatabase(p)
  \/ \E p \in Procs : ImportQuery(p)
  \/ \E p \in Procs : CreateStart(p, CfgTable)
  \/ \E p \in Procs : CreateLock(p)
  \/ \E p \in Procs : CreateCheck(p)
  \/ \E p \in Procs : CreateExec(p)
  \/ \E p \in Procs : CreateRead(p)
  \/ \E p \in Procs : ReadStart(p, CfgTable)
  \/ \E p \in Procs : ReadQuery(p)
  \/ \E p \in Procs : DeleteStart(p, CfgTable)
  \/ \E p \in Procs : DeleteLock(p)
  \/ \E p \in Procs : DeleteExec(p)

SpecOps == InitOps /\ [][NextOps]_vars


(***************************************************************************)
(* The privilege normalizer called on its own: one string normalized and   *)
(* the result normalized again, and normalizePerms on a list.              *)
(***************************************************************************)

\* ways of writing a column-scoped privilege: the text before the name,
\* between the name and "(", inside the parentheses, between the columns
\* and after ")"
NormStyles ==
  { [ lead |-> << >>, gap |-> << >>, pad |-> << >>, sep |-> << "," >>, trail |-> << >> ],
    [ lead |-> << " " >>, gap |-> << " " >>, pad |-> << " " >>, sep |-> << ",", " " >>,
      trail |-> << " " >> ],
    [ lead |-> << >>, gap |-> << " " >>, pad |-> << >>, sep |-> << " ", ",", " " >>,
      trail |-> << " " >> ] }

NormNames == { lcSelect, SELECT, << "S", "e", "l", "e", "c", "t" >> }

NormColumns ==
  { << << "a" >> >>, << << "a" >>, << "b" >> >>, << << "b" >>, << "a" >> >>,
    << << "a" >>, << "b" >>, << "c" >> >>, << << "b" >>, << "a" >>, << "c" >> >>,
    << << "c" >>, << "a" >>, << "b" >> >> }

\* the text of a column-scoped privilege written in a style
ColumnPrivText(style, name, cols) ==
  Cat(<< style.lead, name, style.gap, << "(" >>, style.pad, Join(cols, style.sep),
         style.pad, << ")" >>, style.trail >>)

\* an argument of the normalizer: its text and, for a column-scoped
\* privilege, the name and the columns it was written from
NormWritings ==
  { [ text |-> ColumnPrivText(style, name, cols), name |-> name, cols |-> cols ] :
      style \in NormStyles, name \in NormNames, cols \in NormColumns }

\* other strings: plain names, back-quotes, nested and unbalanced
\* parentheses, an empty column, the empty string
NormOdd ==
  { << "D", "E", "L", "E", "T", "E" >>,
    << "d", "e", "l", "e", "t", "e" >>,
    << " ", "BACKTICK", "D", "e", "l", "e", "t", "e", "BACKTICK", " " >>,
    << "s", "e", "l", "e", "c", "t", "(", "b", ",", "a", ",", "c", ")" >>,
    << "S", "E", "L", "E", "C", "T", " ", "(", "a", ",", " ", "b", ",", " ", "c", ")" >>,
    << "f", "(", "g", "(", "b", ",", "a", ")", ",", "c", ")" >>,
    << "x", "(", "(", "b", ",", "a", ")" >>,
    << "x", "(", "b", ",", "a", ")", ")" >>,
    << "(", "b", ",", "a", ")" >>,
    << "x", "(", "b", ")", "(", "a", ")" >>,
    << "x", "(", ")" >>,
    << >>,
    << "(" >>,
    << ")" >>,
    << "x", "(", ",", "a", ")" >>,
    << "x", "(", "b", ",", "a" >>,
    << "BACKTICK", "x", "BACKTICK", " ", "(", "BACKTICK", "b", "BACKTICK", ",", "BACKTICK", "a", "BACKTICK", ")" >>,
    << "a", ")", "b", "(", "c" >> }

NormInputs ==
  NormWritings \cup { [ text |-> t, name |-> << >>, cols |-> << >> ] : t \in NormOdd }

\* the longest list normalizePerms is called with
MaxListLen == 3

NormPool ==
  { lcSelect, SELECT, lcUpdate, << " ", "BACKTICK", "I", "n", "s", "e", "r", "t", "BACKTICK" >>,
    ColsBA }

NormLists == UNION { [ 1..n -> NormPool ] : n \in 0..MaxListLen }

NormalizeCallOf(arg) ==
  [ op |-> "Normalize", pc |-> "call", arg |-> arg, once |-> << >>, twice |-> << >> ]

NormalizeAllCallOf(perms) ==
  [ op |-> "NormalizeAll", pc |-> "call", perms |-> perms, ret |-> << >> ]

\* each process normalizes a string of its own, or both call normalizePerms
InitNormalize ==
  /\ \/ \E a, b \in NormInputs :
          proc = [ p \in Procs |-> NormalizeCallOf(IF p = "w1" THEN a ELSE b) ]
     \/ \E perms \in NormLists : proc = [ p \in Procs |-> NormalizeAllCallOf(perms) ]
  /\ srvPrivs = {}
  /\ srvRoles = {}
  /\ locks = {}
  /\ nops = 0

\* one element of normalizePerms' loop
NormalizeOnce(p) ==
  /\ proc[p].op = "Normalize" /\ proc[p].pc = "call"
  /\ proc' = [ proc EXCEPT ![p].pc = "once", ![p].once = normalizePerm(proc[p].arg.text) ]
  /\ UNCHANGED << srvPrivs, srvRoles, locks, nops >>

\* the same on its result
NormalizeTwice(p) ==
  /\ proc[p].op = "Normalize" /\ proc[p].pc = "once"
  /\ proc' = [ proc EXCEPT ![p].pc = "done", ![p].twice = normalizePerm(proc[p].once) ]
  /\ UNCHANGED << srvPrivs, srvRoles, locks, nops >>

\* normalizePerms(perms)
NormalizeAll(p) ==
  /\ proc[p].op = "NormalizeAll" /\ proc[p].pc = "call"
  /\ proc' = [ proc EXCEPT ![p].pc = "done", ![p].ret = normalizePerms(proc[p].perms) ]
  /\ UNCHANGED << srvPrivs, srvRoles, locks, nops >>

NextNormalize ==
  \E p \in Procs :
    \/ NormalizeOnce(p)
    \/ NormalizeTwice(p)
    \/ NormalizeAll(p)

SpecNormalize == InitNormalize /\ [][NextNormalize]_vars


(***************************************************************************)
(* Create and Delete calls that contend for the locks of grantees: a role, *)
(* a user of the role's name at the wildcard host, and a configuration     *)
(* without grantee.                                                        *)
(***************************************************************************)

CfgUserPercent == Data(NameR, Percent, Empty, Resource, NameRs, { USAGE }, {})

LockConfigs == { CfgNobody, CfgRoleRes, CfgUserPercent }

NextLocks ==
  \/ \E p \in Procs, cfg \in LockConfigs : CreateStart(p, cfg)
  \/ \E p \in Procs : CreateLock(p)
  \/ \E p \in Procs : CreateCheck(p)
  \/ \E p \in Procs : CreateExec(p)
  \/ \E p \in Procs : CreateRead(p)
  \/ \E p \in Procs, cfg \in LockConfigs \ { CfgNobody } : DeleteStart(p, cfg)
  \/ \E p \in Procs : DeleteLock(p)
  \/ \E p \in Procs : DeleteExec(p)

SpecLocks == Init /\ [][NextLocks]_vars

\* the calls are scheduled and their database statements return: a call
\* that can take the lock takes it, a GRANT or REVOKE that was sent returns,
\* and no call of a live process stays at its SHOW GRANTS query for ever
FairSpecLocks ==
  /\ SpecLocks
  /\ \A p \in Procs :
       /\ WF_vars(CreateLock(p))
       /\ WF_vars(DeleteLock(p))
       /\ WF_vars(CreateExec(p))
       /\ WF_vars(DeleteExec(p))
       /\ []<>(proc[p].pc \notin { "c_check", "c_read" } \/ ~Alive)


(***************************************************************************)
(* Properties of Create, Read and Delete (specification Spec).             *)
(***************************************************************************)

\* the statement a call sent last, with what it returned
LastLog(p) == proc[p].log[Len(proc[p].log)]

\* a privilege-class field with an entry that holds more than one colon
HasBadEntry(field) ==
  field.Valid /\ \E k \in 1..Len(Split(field.String, ";")) :
                   Len(Split(Split(field.String, ";")[k], ":")) > 2

\* C1: when Create's conflict check reads the grantee's grants without error
\* while the server holds a privilege for the grantee on the declared entity,
\* Create ends with the already-exists error, sends no GRANT, and leaves the
\* server's grants and the resource identity as they were.
C1_CreateConflictFails ==
  [][\A p \in Procs :
       (/\ proc[p].pc = "c_check"
        /\ proc'[p].pc # "c_check"
        /\ proc[p].grant.kind = "PrivilegeGrant"
        /\ HeldPrivs(proc[p].grant.UserOrRole, proc[p].grant.Entity) # {}
        /\ proc'[p].log[Len(proc'[p].log)].err = 0
        /\ proc'[p].log[Len(proc'[p].log)].row = ServerRow(proc[p].grant.UserOrRole))
       => (/\ proc'[p].pc = "done"
           /\ proc'[p].ret = "err_exists"
           /\ srvPrivs' = srvPrivs
           /\ srvRoles' = srvRoles
           /\ proc'[p].d.id = proc[p].d.id)]_vars

\* a Create whose GRANT statement was executed without error
GrantExecuted(p) ==
  proc[p].op = "Create" /\ Len(proc[p].log) >= 2 /\ proc[p].log[2].err = 0

\* C2: of two Creates of privilege grants for the same grantee on the same
\* entity, run by two workers, at most one executes its GRANT successfully.
C2_OneCreateWins ==
  \A p, q \in Procs :
    (/\ p # q
     /\ proc[p].grant.kind = "PrivilegeGrant"
     /\ proc[q].grant.kind = "PrivilegeGrant"
     /\ proc[p].grant.UserOrRole = proc[q].grant.UserOrRole
     /\ proc[p].grant.Entity = proc[q].grant.Entity
     /\ GrantExecuted(p))
    => ~GrantExecuted(q)

\* a Create or Delete between its Lock and its Unlock
InLockedSection(p) == proc[p].pc \in { "c_check", "c_grant", "c_read", "d_exec" }

\* C3: no two Create or Delete calls are inside their locked sections at the
\* same time for the same grantee identity string.
C3_OneInLockedSection ==
  \A p, q \in Procs :
    (p # q /\ InLockedSection(p) /\ InLockedSection(q))
    => UserOrRoleIDString(proc[p].grant.UserOrRole)
         # UserOrRoleIDString(proc[q].grant.UserOrRole)

\* a Create inside its locked section while a Delete for the same grantee
\* waits for the lock
C3_Witness ==
  \E p, q \in Procs :
    /\ proc[p].op = "Create" /\ InLockedSection(p)
    /\ proc[q].op = "Delete" /\ proc[q].pc = "d_lock"
    /\ UserOrRoleIDString(proc[p].grant.UserOrRole)
         = UserOrRoleIDString(proc[q].grant.UserOrRole)

\* C4: a Delete that returned sent exactly its REVOKE, and returned success
\* exactly when the REVOKE succeeded or failed with 1141, 1147 or 1403; for
\* any other error it returned the error.
C4_DeleteResult ==
  \A p \in Procs :
    (proc[p].op = "Delete" /\ proc[p].pc = "done")
    => /\ Len(proc[p].log) = 1
       /\ proc[p].log[1].sql = SQLRevokeStatement(proc[p].grant)
       /\ proc[p].ret = IF proc[p].log[1].err \in { 0, 1141, 1147, 1403 }
                        THEN "ok" ELSE "err_sql"

\* a Delete of a grant the server does not hold returned success
C4_Witness ==
  \E p \in Procs :
    /\ proc[p].op = "Delete" /\ proc[p].pc = "done" /\ proc[p].ret = "ok"
    /\ proc[p].log[1].err \in { 1141, 1147, 1403 }

\* C5: a Read (alone or at the end of Create) whose query fails with a
\* grant-does-not-exist code, returns no row, or returns a well-formed row
\* none of whose grants matches the declared grant, clears the resource
\* identity and returns success.
C5_ReadAbsentClearsId ==
  [][\A p \in Procs :
       (/\ proc[p].pc \in { "r_query", "c_read" }
        /\ proc'[p].pc = "done"
        /\ \/ proc'[p].log[Len(proc'[p].log)].err \in { 1141, 1147, 1403 }
           \/ /\ proc'[p].log[Len(proc'[p].log)].err = 0
              /\ ~proc'[p].log[Len(proc'[p].log)].hasRow
           \/ /\ proc'[p].log[Len(proc'[p].log)].err = 0
              /\ proc'[p].log[Len(proc'[p].log)].hasRow
              /\ ~buildDorisGrants(proc'[p].log[Len(proc'[p].log)].row).err
              /\ \A k \in 1..Len(buildDorisGrants(proc'[p].log[Len(proc'[p].log)].row).grants) :
                   ~ConflictsWithGrant(proc[p].grant,
                       buildDorisGrants(proc'[p].log[Len(proc'[p].log)].row).grants[k]))
       => (proc'[p].d.id = Empty /\ proc'[p].ret = "ok")]_vars

\* a Read of a resource with an identity ended with the identity cleared
\* after the query failed with a grant-does-not-exist code
C5_Witness ==
  \E p \in Procs :
    /\ proc[p].op = "Read" /\ proc[p].pc = "done" /\ proc[p].ret = "ok"
    /\ proc[p].d.id = Empty
    /\ LastLog(p).err \in { 1141, 1147, 1403 }

\* C6: a Read (alone or at the end of Create) whose row holds a malformed
\* privilege field, or whose query fails with an error other than
\* grant-does-not-exist, returns an error and leaves the resource identity
\* as it was.
C6_ReadErrorKeepsId ==
  [][\A p \in Procs :
       (/\ proc[p].pc \in { "r_query", "c_read" }
        /\ proc'[p].pc = "done"
        /\ \/ proc'[p].log[Len(proc'[p].log)].err \notin { 0, 1141, 1147, 1403 }
           \/ /\ proc'[p].log[Len(proc'[p].log)].err = 0
              /\ proc'[p].log[Len(proc'[p].log)].hasRow
              /\ HasBadEntry(proc'[p].log[Len(proc'[p].log)].row.TablePrivs))
       => (/\ proc'[p].ret = "err_show"
           /\ proc'[p].d.id = proc[p].d.id
           /\ proc'[p].d.id # Empty)]_vars

\* a Read that met a malformed row returned an error with the identity set
C6_Witness ==
  \E p \in Procs :
    /\ proc[p].op = "Read" /\ proc[p].pc = "done" /\ proc[p].ret = "err_show"
    /\ LastLog(p).err = 0 /\ LastLog(p).hasRow
    /\ HasBadEntry(LastLog(p).row.TablePrivs)
    /\ proc[p].d.id # Empty

\* C7: no Create or Delete ends in a crash, and one whose configuration
\* names no valid grantee returns a validation error having taken no lock
\* and sent no statement.
C7_NoCrash ==
  \A p \in Procs :
    proc[p].op \in { "Create", "Delete" }
    => /\ proc[p].ret # "panic"
       /\ parseResourceFromData(proc[p].d).diagErr
            => (proc[p].pc = "done" /\ proc[p].ret = "err_parse" /\ proc[p].log = << >>)

\* C8: a Create that returned success, for either grant variant, leaves the
\* resource identity set to the id of the declared grant.
C8_CreateKeepsIdentity ==
  \A p \in Procs :
    (proc[p].op = "Create" /\ proc[p].pc = "done" /\ proc[p].ret = "ok")
    => (GrantExecuted(p) /\ proc[p].d.id = GetId(proc[p].grant))

(***************************************************************************)
(* Properties of Update (specification SpecUpdate).                        *)
(***************************************************************************)

\* a privilege set with each element normalized
Normalized(S) == { normalizePerm(x) : x \in S }

\* C9: what Update revokes and what it takes as added are the differences of
\* the normalized old and new privilege sets.
C9_NormalizedDifferences ==
  \A p \in Procs :
    (proc[p].op = "Update" /\ HasChange(proc[p].d))
    => /\ Range(privsToRevoke(proc[p].d))
            = Normalized(proc[p].d.oldPrivileges) \ Normalized(proc[p].d.privileges)
       /\ Normalized(Range(grantIfs(proc[p].d)))
            = Normalized(proc[p].d.privileges) \ Normalized(proc[p].d.oldPrivileges)

\* the statements of an Update with toRevoke and toGrant the differences of
\* the normalized sets: the partial REVOKE of toRevoke when it is non-empty,
\* then the GRANT of the whole new list when toGrant is non-empty
UpdateStatements(grant, toRevoke, toGrant) ==
  (IF toRevoke # {}
   THEN << SQLPartialRevokePrivilegesStatement(grant, SetList(toRevoke)) >> ELSE << >>)
  \o (IF toGrant # {} THEN << SQLGrantStatement(grant) >> ELSE << >>)

\* C10: an Update that returned success sent the partial REVOKE naming
\* exactly toRevoke when toRevoke is non-empty, and after it the GRANT naming
\* the whole new privilege list when toGrant is non-empty, and nothing else.
C10_RevokeThenGrant ==
  \A p \in Procs :
    (proc[p].op = "Update" /\ proc[p].pc = "done" /\ proc[p].ret = "ok")
    => [ k \in 1..Len(proc[p].log) |-> proc[p].log[k].sql ]
         = UpdateStatements(proc[p].grant,
             Normalized(proc[p].d.oldPrivileges) \ Normalized(proc[p].d.privileges),
             Normalized(proc[p].d.privileges) \ Normalized(proc[p].d.oldPrivileges))

\* C11: an Update of a role grant that has privileges to revoke ends with
\* the partial-revoke-unsupported error having sent no statement, and the
\* server's grants are as they were.
C11_RoleGrantNoPartialRevoke ==
  \A p \in Procs :
    (/\ proc[p].op = "Update"
     /\ proc[p].grant.kind = "RoleGrant"
     /\ \/ Len(privsToRevoke(proc[p].d)) > 0
        \/ Normalized(proc[p].d.oldPrivileges) \ Normalized(proc[p].d.privileges) # {})
    => /\ proc[p].pc = "done"
       /\ proc[p].ret = "err_norevoke"
       /\ proc[p].log = << >>
       /\ srvPrivs = AppliedPrivs(proc[p].grant)
       /\ srvRoles = AppliedRoles(proc[p].grant)

\* an Update of a role grant that drops a privilege returned the error
C11_Witness ==
  \E p \in Procs :
    /\ proc[p].op = "Update" /\ proc[p].grant.kind = "RoleGrant"
    /\ proc[p].d.oldPrivileges \ proc[p].d.privileges # {}
    /\ proc[p].pc = "done" /\ proc[p].ret = "err_norevoke"

\* the privileges field after a Read that found the grant found: as it was
\* when its normalized list is the grant's list, else the grant's list
PrivilegesAfterRead(before, found) ==
  IF normalizePerms(setToArray(before)) = found.Privileges THEN before
  ELSE Range(found.Privileges)

\* the grant a Read finds in the row its query returned
FoundIn(grant, row) == FirstConflict(grant, buildDorisGrants(row).grants)

\* C12: a Read (alone or at the end of Create) that found the matching grant
\* leaves the privileges field exactly as declared when the declared list,
\* normalized, is the found grant's list, and otherwise replaces it by the
\* found grant's list.
C12_ReadOverwritesIffDifferent ==
  [][\A p \in Procs :
       (/\ proc[p].pc \in { "r_query", "c_read" }
        /\ proc'[p].pc = "done"
        /\ proc'[p].ret = "ok"
        /\ proc'[p].log[Len(proc'[p].log)].hasRow
        /\ FoundIn(proc[p].grant, proc'[p].log[Len(proc'[p].log)].row).kind
             = "PrivilegeGrant")
       => proc'[p].d.privileges
            = PrivilegesAfterRead(proc[p].d.privileges,
                FoundIn(proc[p].grant, proc'[p].log[Len(proc'[p].log)].row))]_vars

\* one call ended with a Read that kept privileges declared in lower case,
\* another ended with a Read that replaced the declared privileges by the
\* server's
C12_Witness ==
  \E p, q \in Procs :
    /\ proc[p].pc = "done" /\ proc[p].ret = "ok" /\ proc[p].d.id # Empty
    /\ proc[p].d.privileges = { lcUpdate }
    /\ proc[q].op = "Read" /\ proc[q].pc = "done" /\ proc[q].ret = "ok"
    /\ proc[q].d.id # Empty
    /\ proc[q].d.oldPrivileges = { SELECT } /\ proc[q].d.privileges = { UPDATE }

\* C13: the table entity of every grant a call compares with the server's
\* grants or renders into a GRANT or REVOKE statement has a name of exactly
\* three dot-separated segments.
C13_TableNamesThreeParts ==
  \A p \in Procs :
    (/\ proc[p].pc \in { "c_check", "c_grant", "c_read", "r_query", "d_exec" }
     /\ proc[p].grant.kind = "PrivilegeGrant"
     /\ proc[p].grant.Entity.Type = Table)
    => Len(Split(proc[p].grant.Entity.Name, ".")) = 3

(***************************************************************************)
(* Properties of ConflictsWithGrant (specification SpecConflicts).         *)
(***************************************************************************)

\* C14: a privilege grant conflicts with another grant exactly when that is
\* a privilege grant on an entity of the same kind and name, whatever the
\* grantees and privilege lists; a role grant conflicts with no privilege
\* grant.
C14_PrivilegeConflictIsEntityEquality ==
  \A p \in Procs :
    (proc[p].op = "Conflicts" /\ proc[p].pc = "done")
    => /\ proc[p].t.kind = "PrivilegeGrant"
            => (proc[p].ret <=> /\ proc[p].other.kind = "PrivilegeGrant"
                                /\ proc[p].other.Entity.Type = proc[p].t.Entity.Type
                                /\ proc[p].other.Entity.Name = proc[p].t.Entity.Name)
       /\ (proc[p].t.kind = "RoleGrant" /\ proc[p].other.kind = "PrivilegeGrant")
            => ~proc[p].ret

\* two privilege grants on one entity with different grantees and different
\* privileges were found to conflict
C14_Witness ==
  \E p \in Procs :
    /\ proc[p].op = "Conflicts" /\ proc[p].pc = "done" /\ proc[p].ret
    /\ proc[p].t.kind = "PrivilegeGrant" /\ proc[p].other.kind = "PrivilegeGrant"
    /\ proc[p].t.UserOrRole # proc[p].other.UserOrRole
    /\ proc[p].t.Privileges # proc[p].other.Privileges

\* C15: two role grants conflict exactly when their grantees are equal: the
\* names match and the hosts are both empty or "%", or match.
C15_RoleConflictIsGranteeEquality ==
  \A p \in Procs :
    (/\ proc[p].op = "Conflicts" /\ proc[p].pc = "done"
     /\ proc[p].t.kind = "RoleGrant" /\ proc[p].other.kind = "RoleGrant")
    => (proc[p].ret <=> UserOrRoleEquals(proc[p].t.UserOrRole, proc[p].other.UserOrRole))

(***************************************************************************)
(* Properties of the grant parser (specification SpecParse).               *)
(***************************************************************************)

\* whether some privilege-class field of a row holds a malformed entry
RowHasBadEntry(row) ==
  \E k \in 1..Len(FieldOrder) : HasBadEntry(row[FieldOrder[k][1]])

\* C16: for a row whose Roles field is present and non-empty the parser's
\* result holds exactly one role grant, for the row's grantee, with the
\* comma-separated names of the field as its roles.
C16_RolesFieldParsed ==
  \A p \in Procs :
    (/\ proc[p].op = "Parse" /\ proc[p].pc = "done" /\ ~proc[p].ret.err
     /\ proc[p].row.Roles.Valid /\ proc[p].row.Roles.String # Empty)
    => /\ Cardinality({ k \in 1..Len(proc[p].ret.grants) :
                          proc[p].ret.grants[k].kind = "RoleGrant" }) = 1
       /\ \E k \in 1..Len(proc[p].ret.grants) :
            proc[p].ret.grants[k]
              = RoleGrant(Split(proc[p].row.Roles.String, ","),
                          parseUserIdentity(proc[p].row.UserIdentity.String))

\* the entries of a privilege-class field, each with the field's entity type
TaggedEntries(field, typ) ==
  IF field.Valid /\ field.String # Empty
  THEN [ k \in 1..Len(Split(field.String, ";")) |->
           [ entry |-> Split(field.String, ";")[k], type |-> typ ] ]
  ELSE << >>

\* the entries of a row in field and entry order
RowEntriesInOrder(row) ==
  TaggedEntries(row.GlobalPrivs, Table) \o TaggedEntries(row.CatalogPrivs, Table)
  \o TaggedEntries(row.DatabasePrivs, Table) \o TaggedEntries(row.TablePrivs, Table)
  \o TaggedEntries(row.ColPrivs, Table) \o TaggedEntries(row.ResourcePrivs, Resource)
  \o TaggedEntries(row.WorkloadGroupPrivs, WorkloadGroup)

\* the part of an entry before ":" as written, or *.*.* when there is no ":"
NameAsWritten(entry) ==
  IF IndexOf(entry, ":") = 0 THEN Star3 ELSE SubSeq(entry, 1, IndexOf(entry, ":") - 1)

\* that part without surrounding white space and, for a table, filled with
\* "*" to three segments
NameTrimmedPadded(entry, typ) ==
  IF typ = Table
  THEN Join(PadParts(Split(TrimSpace(NameAsWritten(entry)), ".")), << "." >>)
  ELSE TrimSpace(NameAsWritten(entry))

\* the privileges of an entry: what follows ":" (the whole entry when there
\* is no ":"), split on ",", each normalized, in ascending order
EntryPrivileges(entry) ==
  SortStrings([ k \in 1..Len(Split(TrimSpace(SubSeq(entry, IndexOf(entry, ":") + 1,
                                                    Len(entry))), ",")) |->
    normalizePerm(Split(TrimSpace(SubSeq(entry, IndexOf(entry, ":") + 1,
                                         Len(entry))), ",")[k]) ])

\* C17 (amended): for a row without a malformed entry the parser yields
\* exactly one privilege grant per entry, in field and entry order, for the
\* row's grantee; its entity has the field's type and the name before ":"
\* trimmed of white space and, for a table, filled to three segments (*.*.*
\* when the entry has no ":"), and its privileges are the normalized,
\* ascending comma-split list.
C17_OneGrantPerEntry ==
  \A p \in Procs :
    (proc[p].op = "Parse" /\ proc[p].pc = "done" /\ ~RowHasBadEntry(proc[p].row))
    => /\ ~proc[p].ret.err
       /\ Len(proc[p].ret.grants) = Len(RowEntriesInOrder(proc[p].row))
       /\ \A k \in 1..Len(proc[p].ret.grants) :
            proc[p].ret.grants[k]
              = PrivilegeGrant(
                  EntryPrivileges(RowEntriesInOrder(proc[p].row)[k].entry),
                  [ Type |-> RowEntriesInOrder(proc[p].row)[k].type,
                    Name |-> NameTrimmedPadded(RowEntriesInOrder(proc[p].row)[k].entry,
                                               RowEntriesInOrder(proc[p].row)[k].type) ],
                  parseUserIdentity(proc[p].row.UserIdentity.String))

\* the row with TablePrivs "db.tbl1.*:SELECT,UPDATE;db.tbl2.*:SELECT" alone
\* was parsed to two grants with privileges [SELECT, UPDATE] and [SELECT]
C17_Witness ==
  \E p \in Procs :
    /\ proc[p].op = "Parse" /\ proc[p].pc = "done"
    /\ proc[p].row.TablePrivs = Str(TwoTables)
    /\ Len(proc[p].ret.grants) = 2
    /\ proc[p].ret.grants[1].Privileges = << SELECT, UPDATE >>
    /\ proc[p].ret.grants[2].Privileges = << SELECT >>

\* C17 (as stated): the entity name of each grant is the part of its entry
\* before ":" as the row holds it.
C17_NameAsWritten ==
  \A p \in Procs :
    (proc[p].op = "Parse" /\ proc[p].pc = "done" /\ ~RowHasBadEntry(proc[p].row))
    => /\ Len(proc[p].ret.grants) = Len(RowEntriesInOrder(proc[p].row))
       /\ \A k \in 1..Len(proc[p].ret.grants) :
            proc[p].ret.grants[k].Entity.Name
              = NameAsWritten(RowEntriesInOrder(proc[p].row)[k].entry)

\* C18: for a row with an entry that splits on ":" into more than two parts
\* the parser returns an error and no grants.
C18_BadEntryAbortsParse ==
  \A p \in Procs :
    (proc[p].op = "Parse" /\ proc[p].pc = "done" /\ RowHasBadEntry(proc[p].row))
    => (proc[p].ret.err /\ proc[p].ret.grants = << >>)

\* a row with a well-formed field and a well-formed entry before the
\* malformed one was parsed to an error without grants
C18_Witness ==
  \E p \in Procs :
    /\ proc[p].op = "Parse" /\ proc[p].pc = "done"
    /\ proc[p].row.GlobalPrivs = Str(SELECT)
    /\ proc[p].row.TablePrivs = Str(GoodThenBad)
    /\ proc[p].ret.err /\ proc[p].ret.grants = << >>

(***************************************************************************)
(* Properties of ImportGrant (specification SpecImport).                   *)
(***************************************************************************)

\* the positions of the found grants that conflict with the desired grant
ConflictIndexes(desiredGrant, grants) ==
  { k \in 1..Len(grants) : ConflictsWithGrant(grants[k], desiredGrant) }

\* the call returned the grant at the least of the positions idx with its id
\* as the identity, or the not-found error and no resource when idx is empty
ImportReturnedFirst(call, idx, grants) ==
  IF idx = {} THEN call.ret = "err_notfound" /\ call.res = << >>
  ELSE /\ call.ret = "ok"
       /\ Len(call.res) = 1
       /\ \E k \in idx :
            /\ \A j \in idx : k <= j
            /\ call.res[1].id = GetId(grants[k])
            /\ call.res[1].entity_name = grants[k].Entity.Name
            /\ call.res[1].privileges = Range(grants[k].Privileges)

\* C19: an import whose query and parse succeeded returns the first grant,
\* in parser order, that conflicts with the grant of the import ID, with that
\* grant's id as the resource identity; when none conflicts it returns the
\* not-found error and no resource.
C19_ImportFirstConflicting ==
  \A p \in Procs :
    (/\ proc[p].op = "Import" /\ proc[p].pc = "done" /\ proc[p].log # << >>
     /\ ~showPrivilegeGrants(LastLog(p)).err)
    => ImportReturnedFirst(proc[p],
                           ConflictIndexes(proc[p].grant,
                                           showPrivilegeGrants(LastLog(p)).grants),
                           showPrivilegeGrants(LastLog(p)).grants)

\* an import succeeded where two of the found grants conflict and the first
\* found grant does not
C19_Witness ==
  \E p \in Procs :
    /\ proc[p].op = "Import" /\ proc[p].pc = "done" /\ proc[p].ret = "ok"
    /\ proc[p].log # << >>
    /\ Cardinality(ConflictIndexes(proc[p].grant,
                                   showPrivilegeGrants(LastLog(p)).grants)) = 2
    /\ 1 \notin ConflictIndexes(proc[p].grant, showPrivilegeGrants(LastLog(p)).grants)

\* the number of occurrences of a character in a string
CountOf(str, ch) == Cardinality({ k \in 1..Len(str) : str[k] = ch })

\* id is joined, or joined followed by "@" and more
StartsWithSegments(id, joined) ==
  /\ Len(joined) <= Len(id)
  /\ SubSeq(id, 1, Len(joined)) = joined
  /\ (Len(joined) < Len(id) => id[Len(joined) + 1] = "@")

\* C20: once the ID is split, an ID of 4 or 5 "@"-separated segments has
\* given the grantee of segments 1 and 2 and the entity of segments 3 and 4;
\* with any other number of segments the import has ended with the format
\* error without a statement sent.
C20_ImportIdFormat ==
  \A p \in Procs :
    (proc[p].op = "Import" /\ proc[p].pc # "i_split")
    => IF CountOf(proc[p].id, "@") \in { 3, 4 }
       THEN /\ proc[p].grant.kind = "PrivilegeGrant"
            /\ proc[p].ret # "err_format"
            /\ CountOf(proc[p].grant.UserOrRole.Name, "@") = 0
            /\ CountOf(proc[p].grant.UserOrRole.Host, "@") = 0
            /\ CountOf(proc[p].grant.Entity.Type, "@") = 0
            /\ CountOf(proc[p].grant.Entity.Name, "@") = 0
            /\ StartsWithSegments(proc[p].id,
                                  Cat(<< proc[p].grant.UserOrRole.Name, At,
                                         proc[p].grant.UserOrRole.Host, At,
                                         proc[p].grant.Entity.Type, At,
                                         proc[p].grant.Entity.Name >>))
       ELSE /\ proc[p].pc = "done"
            /\ proc[p].ret = "err_format"
            /\ proc[p].log = << >>
            /\ proc[p].res = << >>

\* the ID "jdoe@example.com@table@db.tbl.*" was split to the grantee
\* jdoe@example.com and the entity table:db.tbl.*
C20_Witness ==
  \E p \in Procs :
    /\ proc[p].op = "Import" /\ proc[p].pc = "done" /\ proc[p].ret = "ok"
    /\ proc[p].id = IdJdoe
    /\ proc[p].grant.UserOrRole = [ Name |-> NameJdoe, Host |-> NameExample ]
    /\ proc[p].grant.Entity = [ Type |-> Table, Name |-> NameDbTbl ]

(***************************************************************************)
(* Properties of the five operations together (specification SpecOps).     *)
(***************************************************************************)

HasPrefix(str, prefix) ==
  Len(prefix) <= Len(str) /\ SubSeq(str, 1, Len(prefix)) = prefix

\* the kind of a statement a call has sent
StatementKind(sql) ==
  IF HasPrefix(sql, KwShowGrantsFor) THEN "SHOW"
  ELSE IF HasPrefix(sql, KwGrant) THEN "GRANT"
  ELSE IF HasPrefix(sql, KwRevoke) THEN "REVOKE"
  ELSE "other"

Prefixes(seq) == { SubSeq(seq, 1, n) : n \in 0..Len(seq) }

\* the statements an operation may have sent when each of its statements is
\* sent at most once
StatementsOf(op) ==
  IF op = "Create" THEN Prefixes(<< "SHOW", "GRANT", "SHOW" >>)
  ELSE IF op \in { "Read", "Import" } THEN Prefixes(<< "SHOW" >>)
  ELSE IF op = "Delete" THEN Prefixes(<< "REVOKE" >>)
  ELSE IF op = "Update" THEN Prefixes(<< "REVOKE", "GRANT" >>) \cup { << "GRANT" >> }
  ELSE { << >> }

\* an error that an operation takes as "no grant": a grant-does-not-exist
\* number of the SHOW GRANTS query or of the REVOKE of Delete
TakenAsAbsent(op, entry) ==
  /\ isNonExistingGrant(entry.err)
  /\ \/ StatementKind(entry.sql) = "SHOW"
     \/ op = "Delete"

\* C21: every operation sends each of its statements at most once, sends
\* nothing after a statement that returned an error (other than a
\* grant-does-not-exist error taken as "no grant"), and returns an error
\* when its last statement returned one.
C21_NoRetryNoContinue ==
  \A p \in Procs :
    /\ [ k \in 1..Len(proc[p].log) |-> StatementKind(proc[p].log[k].sql) ]
         \in StatementsOf(proc[p].op)
    /\ \A k \in 1..Len(proc[p].log) :
         (proc[p].log[k].err # 0 /\ ~TakenAsAbsent(proc[p].op, proc[p].log[k]))
         => /\ k = Len(proc[p].log)
            /\ proc[p].pc = "done"
            /\ proc[p].ret \in { "err_show", "err_sql" }

\* an Update whose partial REVOKE failed ended without the GRANT it had to
\* send, and a Create whose conflict check failed ended without its GRANT
C21_Witness ==
  /\ \E p \in Procs :
       /\ proc[p].op = "Update" /\ proc[p].pc = "done" /\ proc[p].ret = "err_sql"
       /\ Len(grantIfs(proc[p].d)) > 0
       /\ Len(proc[p].log) = 1
       /\ StatementKind(proc[p].log[1].sql) = "REVOKE"
  /\ \E p \in Procs :
       /\ proc[p].op = "Create" /\ proc[p].pc = "done" /\ proc[p].ret = "err_show"
       /\ Len(proc[p].log) = 1
       /\ proc[p].log[1].err # 0

(***************************************************************************)
(* Further properties of Create, Read and Delete (specification Spec).     *)
(***************************************************************************)

\* C22: a Create that has executed its GRANT and has its trailing Read still
\* to run no longer holds the lock of its grantee.
C22_LockReleasedBeforeRead ==
  \A p \in Procs :
    (proc[p].op = "Create" /\ proc[p].pc = "c_read")
    => UserOrRoleIDString(proc[p].grant.UserOrRole) \notin locks

\* the query of the step that p has just taken returned the server's row for
\* who (or no row and no error when the server holds nothing for who)
AnsweredTruly(entry, who) ==
  /\ entry.err = 0
  /\ entry.hasRow => entry.row = ServerRow(who)

\* C23: a Create of a privilege grant whose conflict check was answered
\* truly goes on to its GRANT when the server holds no grant of the grantee on
\* the same entity; and a Read (alone or at the end of Create) answered truly,
\* while the server holds the privileges of its own grant next to grants of
\* the grantee on other entities, keeps the identity and reports the
\* privileges of its own entity only.
C23_DifferentEntitiesCoexist ==
  [][\A p \in Procs :
       /\ (/\ proc[p].pc = "c_check" /\ proc'[p].pc # "c_check"
           /\ proc[p].grant.kind = "PrivilegeGrant"
           /\ AnsweredTruly(proc'[p].log[Len(proc'[p].log)], proc[p].grant.UserOrRole)
           /\ \A y \in srvPrivs :
                y.who = proc[p].grant.UserOrRole => y.ent # proc[p].grant.Entity)
          => proc'[p].pc = "c_grant"
       /\ (/\ proc[p].pc \in { "r_query", "c_read" } /\ proc'[p].pc = "done"
           /\ proc[p].grant.kind = "PrivilegeGrant"
           /\ AnsweredTruly(proc'[p].log[Len(proc'[p].log)], proc[p].grant.UserOrRole)
           /\ HeldPrivs(proc[p].grant.UserOrRole, proc[p].grant.Entity) # {})
          => /\ proc'[p].ret = "ok"
             /\ proc'[p].d.id = GetId(proc[p].grant)
             /\ Range(normalizePerms(setToArray(proc'[p].d.privileges)))
                  = HeldPrivs(proc[p].grant.UserOrRole, proc[p].grant.Entity)
    ]_vars

(***************************************************************************)
(* Properties of the privilege normalizer (specification SpecNormalize).   *)
(***************************************************************************)

\* C24: normalizing a normalized privilege string changes nothing.
C24_NormalizeIdempotent ==
  \A p \in Procs :
    (proc[p].op = "Normalize" /\ proc[p].pc = "done") => proc[p].twice = proc[p].once

\* a string with back-quotes, spaces and columns out of order was
\* normalized twice, and the first pass changed it
C24_Witness ==
  \E p \in Procs :
    /\ proc[p].op = "Normalize" /\ proc[p].pc = "done"
    /\ proc[p].arg.text
         = << "BACKTICK", "x", "BACKTICK", " ", "(", "BACKTICK", "b", "BACKTICK", ",",
              "BACKTICK", "a", "BACKTICK", ")" >>
    /\ proc[p].once # proc[p].arg.text
    /\ proc[p].twice = proc[p].once

\* C25: two column-scoped privileges written from the same name (in any
\* letter case) and the same columns (in any order), with any spacing, are
\* normalized to the same string.
C25_SameColumnsSameResult ==
  \A p, q \in Procs :
    (/\ proc[p].op = "Normalize" /\ proc[p].pc # "call"
     /\ proc[q].op = "Normalize" /\ proc[q].pc # "call"
     /\ proc[p].arg.name # << >> /\ proc[q].arg.name # << >>
     /\ ToUpper(proc[p].arg.name) = ToUpper(proc[q].arg.name)
     /\ Range(proc[p].arg.cols) = Range(proc[q].arg.cols))
    => proc[p].once = proc[q].once

\* two writings that differ in letter case, column order and spacing were
\* normalized to one string
C25_Witness ==
  \E p, q \in Procs :
    /\ proc[p].op = "Normalize" /\ proc[p].pc # "call"
    /\ proc[q].op = "Normalize" /\ proc[q].pc # "call"
    /\ proc[p].arg.name = lcSelect /\ proc[q].arg.name = SELECT
    /\ proc[p].arg.cols = << << "b" >>, << "a" >>, << "c" >> >>
    /\ proc[q].arg.cols = << << "a" >>, << "b" >>, << "c" >> >>
    /\ Len(proc[p].arg.text) < Len(proc[q].arg.text)
    /\ proc[p].once = proc[q].once

\* C26: a column-scoped privilege is normalized to its name in upper case,
\* "(", its columns as written in ascending order with ", " between them,
\* and ")"; "select(b,a,c)" and "SELECT (a, b, c)" both give
\* "SELECT(a, b, c)", and "DELETE" gives "DELETE".
C26_ColumnRendering ==
  \A p \in Procs :
    (proc[p].op = "Normalize" /\ proc[p].pc # "call")
    => /\ proc[p].arg.name # << >>
          => proc[p].once
               = Cat(<< ToUpper(proc[p].arg.name), << "(" >>,
                        Join(SortStrings(proc[p].arg.cols), << ",", " " >>), << ")" >> >>)
       /\ proc[p].arg.text
            \in { << "s", "e", "l", "e", "c", "t", "(", "b", ",", "a", ",", "c", ")" >>,
                  << "S", "E", "L", "E", "C", "T", " ", "(", "a", ",", " ", "b", ",", " ",
                     "c", ")" >> }
          => proc[p].once
               = << "S", "E", "L", "E", "C", "T", "(", "a", ",", " ", "b", ",", " ", "c", ")" >>
       /\ proc[p].arg.text = << "D", "E", "L", "E", "T", "E" >>
          => proc[p].once = << "D", "E", "L", "E", "T", "E" >>

\* the number of positions of a list that hold x
Occurrences(xs, x) == Cardinality({ k \in 1..Len(xs) : xs[k] = x })

\* C27: normalizePerms returns a list of the length of its argument, in
\* ascending order, that holds every normalized element as often as the
\* argument gives it.
C27_NormalizeAllKeepsEveryElement ==
  \A p \in Procs :
    (proc[p].op = "NormalizeAll" /\ proc[p].pc = "done")
    => /\ Len(proc[p].ret) = Len(proc[p].perms)
       /\ \A k \in 1..(Len(proc[p].ret) - 1) : ~StrLess(proc[p].ret[k + 1], proc[p].ret[k])
       /\ \A x \in Range(proc[p].ret) \cup { normalizePerm(y) : y \in Range(proc[p].perms) } :
            Occurrences(proc[p].ret, x)
              = Cardinality({ k \in 1..Len(proc[p].perms) : normalizePerm(proc[p].perms[k]) = x })

\* the list [update, select, SELECT] was normalized to [SELECT, SELECT, UPDATE]
C27_Witness ==
  \E p \in Procs :
    /\ proc[p].op = "NormalizeAll" /\ proc[p].pc = "done"
    /\ proc[p].perms = << lcUpdate, lcSelect, SELECT >>
    /\ proc[p].ret = << SELECT, SELECT, UPDATE >>

(***************************************************************************)
(* Further properties of Update (specification SpecUpdate).                *)
(***************************************************************************)

\* C28: the server held the normalized old privilege set of the resource
\* when its Update started; once the Update has returned success the server
\* holds, for the grant, the normalized new privilege set.
C28_UpdateEndState ==
  \A p \in Procs :
    (/\ proc[p].op = "Update" /\ proc[p].pc = "done" /\ proc[p].ret = "ok"
     /\ proc[p].grant.kind = "PrivilegeGrant")
    => HeldPrivs(proc[p].grant.UserOrRole, proc[p].grant.Entity)
         = Normalized(proc[p].d.privileges)

(***************************************************************************)
(* Properties of the per-grantee lock (specifications SpecLocks and        *)
(* FairSpecLocks).                                                         *)
(***************************************************************************)

\* C29: a lock is held only for a call inside its locked section (every
\* exit path has released it); and, while the provider process is alive,
\* every Create or Delete that waits for a lock gets inside its locked
\* section and every call inside its locked section, the trailing Read of
\* Create included, returns.
C29_LockReleasedAndAcquired ==
  /\ [](\A key \in locks :
          \E p \in Procs :
            InLockedSection(p) /\ UserOrRoleIDString(proc[p].grant.UserOrRole) = key)
  /\ \A p \in Procs :
       /\ (proc[p].pc \in { "c_lock", "d_lock" }) ~> (InLockedSection(p) \/ ~Alive)
       /\ InLockedSection(p) ~> (proc[p].pc = "done" \/ ~Alive)

\* a Create whose GRANT failed has returned and another call for the same
\* grantee is inside its locked section
C29_Witness ==
  \E p, q \in Procs :
    /\ p # q
    /\ proc[p].op = "Create" /\ proc[p].pc = "done" /\ proc[p].ret = "err_sql"
    /\ InLockedSection(q)
    /\ UserOrRoleIDString(proc[q].grant.UserOrRole)
         = UserOrRoleIDString(proc[p].grant.UserOrRole)

\* C30: the calls of two grantees that are equal under UserOrRole.Equals have
\* the same lock key and are never inside their locked sections at the same
\* time.
C30_EqualGranteesSerialized ==
  \A p, q \in Procs :
    (/\ p # q
     /\ proc[p].grant.kind # "nil" /\ proc[q].grant.kind # "nil"
     /\ UserOrRoleEquals(proc[p].grant.UserOrRole, proc[q].grant.UserOrRole))
    => /\ UserOrRoleIDString(proc[p].grant.UserOrRole)
            = UserOrRoleIDString(proc[q].grant.UserOrRole)
       /\ ~(InLockedSection(p) /\ InLockedSection(q))

=============================================================================
